---- MODULE Spec2Model ----
(***************************************************************************)
(* A model of godev2: the start orchestrator (StartDevcontainer in         *)
(* single-container and compose mode), its lifecycle engine (sequential    *)
(* hooks, parallel named sub-commands, feature entrypoints) and the        *)
(* feature orderer (orderFeatures), the feature resolver                   *)
(* (resolveFeatures), feature option resolution, MergeConfig and           *)
(* validateConfig; stopping and removing, the container labels, the        *)
(* temporary resources of a start, feature archive extraction, registry    *)
(* requests, the build context pipe, variable expansion, the environment   *)
(* merge, the feature entrypoint check, lifecycle hook decoding, the       *)
(* comment stripper of the configuration parser and the feature comparer.  *)
(*                                                                         *)
(* Specifications:                                                         *)
(*   Spec         one StartDevcontainer call, from config load to return   *)
(*   SpecOrder    one orderFeatures call on a resolved feature list        *)
(*   SpecResolve  one resolveFeatures call against a registry              *)
(*   FairSpecResolve  the same, where a call that can step does step       *)
(*   SpecOptions  one resolveFeatureOptions call                           *)
(*   SpecConfig   one MergeConfig or validateConfig call                   *)
(*   SpecStop     one StopDevcontainer or RemoveDevcontainer call          *)
(*   SpecLabels   the labels of the container one start call creates       *)
(*   SpecCleanup  the temporary resources of one start call                *)
(*   SpecExtract  one extractFeatureArchive call on a file system          *)
(*   SpecRequest  one registry request with its bearer-token retry         *)
(*   SpecPipe     tarDirectory's producer and the reader of its pipe       *)
(*   FairSpecPipe     the same, where both sides keep taking steps         *)
(*   SpecExpand   one expandVariables call                                 *)
(*   SpecMergeEnv one mergeEnvMaps call                                    *)
(*   SpecEntrypoint  the entrypoint check of one buildFeaturesImage call   *)
(*   SpecHook     one lifecycle hook decoded, re-encoded and decoded again *)
(*   SpecStrip    one stripJSONComments call, one byte per step            *)
(*   SpecLess     one featureLess call, or one stable sort of a commit set *)
(*   FairSpecOrder    one orderFeatures call that keeps taking steps       *)
(***************************************************************************)
EXTENDS Integers, Sequences, FiniteSets, TLC

(* ---- bounds of the model ---- *)
\* features in ResolvedFeatures.Order of one start call
MaxFeatures == 2
\* lifecycle hooks the user's devcontainer.json sets
MaxUserHooks == 2
\* named sub-commands of a parallel hook
MaxSub == 2
\* resolved features handed to orderFeatures
MaxPlan == 3
\* dependsOn and installsAfter declarations among them
MaxEdges == 2
\* entries of overrideFeatureInstallOrder
MaxOverride == 2
\* features of the configuration handed to resolveFeatures
MaxRequests == 2
\* dependsOn entries of the features the registry serves
MaxDepends == 2
\* options a feature declares in one resolveFeatureOptions call
MaxOptionDefs == 2
\* options the user gives in one resolveFeatureOptions call
MaxUserOptions == 2
\* fields a configuration handed to MergeConfig sets
MaxSetFields == 2
\* start options of one compose-mode call that validateComposeOptions reads
MaxComposeOverrides == 2

VARIABLES
    pc,           \* position of StartDevcontainer / startComposeDevcontainer
    cfg,          \* the loaded configuration and resolved features of the call
    queue,        \* hook invocations the running lifecycle call still has to make
    cur,          \* the hook invocation in flight: idle, a single runner call, or a parallel group
    calls,        \* every runner invocation so far: command id -> name, runner, status, count
    engineOps,    \* container-engine operations performed so far
    created,      \* a container of this call exists in the engine
    containerID,  \* the container id the call holds ("" while it has none)
    ret,          \* what the call returned: (id, err)
    lastJoin,     \* what the last runParallelLifecycleCommands saw when it returned
    firstErr,     \* the first runner invocation that returned an error (its error)
    inFeatures,   \* orderFeatures: the features argument, a list of resolved features
    inOverride,   \* orderFeatures: the override argument
    opc,          \* orderFeatures: position of the call
    remaining,    \* orderFeatures: keys of the features not yet ordered
    order,        \* orderFeatures: the order built so far, as dependency keys
    orderRet,     \* orderFeatures: what the call returned
    rpc,          \* resolveFeatures: position of the call
    rcfg,         \* resolveFeatures: cfg.Features and the dependsOn maps the registry serves
    rtodo,        \* resolveFeatures: the sorted ids not yet handed to resolveRequest
    rstack,       \* the resolveRequest calls in progress, innermost last
    resolving,    \* featureResolver.resolving: request keys on the resolve stack
    resolved,     \* featureResolver.resolved: key -> feature (an index of resolverFeatures)
    resolverFeatures, \* featureResolver.features
    fetched,      \* the request keys fetchAndParse fetched a feature for, in call order
    rret,         \* resolveFeatures: what the call returned
    callee,       \* a single function call: the function called
    callArgs,     \* its arguments
    callResult,   \* what it returned
    frame,        \* a call made of several steps: its position and local variables
    world         \* what such a call acts on: the engine, the file system, the network

resolveVars == <<rpc, rcfg, rtodo, rstack, resolving, resolved, resolverFeatures, fetched, rret>>

callVars == <<callee, callArgs, callResult, frame, world>>

startVars == <<pc, cfg, queue, cur, calls, engineOps, created, containerID, ret, lastJoin, firstErr>>

orderVars == <<inFeatures, inOverride, opc, remaining, order, orderRet>>

vars == <<startVars, orderVars, resolveVars, callVars>>

\* what the actions of one specification leave alone: the state of the other
outsideStart == <<orderVars, resolveVars, callVars>>
outsideOrder == <<startVars, resolveVars, callVars>>
outsideResolve == <<startVars, orderVars, callVars>>
outsideCall == <<startVars, orderVars, resolveVars>>

(* ---- generic helpers ---- *)
RECURSIVE FlattenSeq(_)
FlattenSeq(ss) == IF ss = <<>> THEN <<>> ELSE Head(ss) \o FlattenSeq(Tail(ss))

Range(s) == {s[i] : i \in DOMAIN s}

(* ---- lifecycle commands (LifecycleCommands, *LifecycleCommands) ---- *)
\* mutant: postCreateCommand listed before onCreateCommand
lifecycleOrderSwapped ==
    <<"postCreateCommand", "updateContentCommand", "onCreateCommand",
      "postStartCommand", "postAttachCommand">>

lifecycleOrder ==
    <<"onCreateCommand", "updateContentCommand", "postCreateCommand",
      "postStartCommand", "postAttachCommand">>

SubNames == <<"alpha", "beta", "gamma", "delta">>

NilLC == [nil |-> TRUE, single |-> FALSE, parallel |-> <<>>]
SingleLC == [nil |-> FALSE, single |-> TRUE, parallel |-> <<>>]
ParallelLC == [nil |-> FALSE, single |-> FALSE, parallel |-> SubSeq(SubNames, 1, MaxSub)]

IsZero(c) == c.nil \/ (~c.single /\ Len(c.parallel) = 0)

(* ---- errors and return values ---- *)
\* a command is identified by its hook, its owner (0: the user's config, k: features.Order[k])
\* and its sub-command name ("" for a Single)
NoCall == <<"", 0, "">>
NoErr == [kind |-> "nil", call |-> NoCall]
StepErr(step) == [kind |-> step, call |-> NoCall]
CommandErr(id) == [kind |-> "command", call |-> id]

NoRet == [set |-> FALSE, id |-> "", err |-> NoErr]
ContainerId == "cid"

(* ---- runners ---- *)
HostRunner == [kind |-> "host", user |-> "host"]
ContainerRunner(user) == [kind |-> "container", user |-> user]

(* ---- resolved features of the start call: what the lifecycle engine reads ---- *)
FeatureHooks(onCreate, updateContent, postCreate, postStart, postAttach) ==
    [h \in Range(lifecycleOrder) |->
        CASE h = "onCreateCommand" -> onCreate
          [] h = "updateContentCommand" -> updateContent
          [] h = "postCreateCommand" -> postCreate
          [] h = "postStartCommand" -> postStart
          [] OTHER -> postAttach]

\* entrypoint: "" (none declared), "abs" (a literal path), "var" (a path holding ${...})
FeatureCatalog ==
    { [id |-> "a", entrypoint |-> "abs",
       hooks |-> FeatureHooks(SingleLC, NilLC, ParallelLC, NilLC, NilLC)],
      [id |-> "b", entrypoint |-> "",
       hooks |-> FeatureHooks(NilLC, NilLC, SingleLC, SingleLC, NilLC)],
      [id |-> "c", entrypoint |-> "var",
       hooks |-> FeatureHooks(SingleLC, NilLC, NilLC, NilLC, SingleLC)] }

featureLifecycleCommands(hook, feature) == feature.hooks[hook]

(* ---- the lifecycle engine's call plan ---- *)
\* runLifecycleCommands: nothing for a nil or zero value, else one hook invocation
runLifecycleCommands(hookName, commands, runner, owner) ==
    IF IsZero(commands) THEN <<>>
    ELSE << [hook |-> hookName, name |-> <<hookName>>, owner |-> owner,
             single |-> commands.single, subs |-> commands.parallel,
             runner |-> runner, expands |-> FALSE] >>

runFeatureLifecycleCommand(hook, feature, runner, owner) ==
    LET commands == featureLifecycleCommands(hook, feature)
    IN  IF IsZero(commands) THEN <<>>
        ELSE runLifecycleCommands(hook, commands, runner, owner)

\* mutant: the user's command of a phase is run before the features' commands
runLifecycleWithFeaturesUserFirst(features, userHooks, runner) ==
    FlattenSeq([h \in DOMAIN lifecycleOrder |->
        LET hook == lifecycleOrder[h]
        IN  (IF ~userHooks[hook].nil
                THEN runLifecycleCommands(hook, userHooks[hook], runner, 0)
                ELSE <<>>)
            \o FlattenSeq([k \in DOMAIN features |->
                    runFeatureLifecycleCommand(hook, features[k], runner, k)])])

\* owner 0 is the user's devcontainer.json, owner k is features.Order[k]
runLifecycleWithFeatures(features, userHooks, runner) ==
    IF DOMAIN userHooks = {} /\ Len(features) = 0 THEN <<>>
    ELSE FlattenSeq([h \in DOMAIN lifecycleOrder |->
            LET hook == lifecycleOrder[h]
            IN  FlattenSeq([k \in DOMAIN features |->
                    runFeatureLifecycleCommand(hook, features[k], runner, k)])
                \o (IF ~userHooks[hook].nil
                       THEN runLifecycleCommands(hook, userHooks[hook], runner, 0)
                       ELSE <<>>)])

runLifecycleSequence(hooks, runner) ==
    FlattenSeq([h \in DOMAIN hooks |->
        IF IsZero(hooks[h].Commands) THEN <<>>
        ELSE runLifecycleCommands(hooks[h].Name, hooks[h].Commands, runner, 0)])

runFeatureEntrypoints(features, runner) ==
    FlattenSeq([k \in DOMAIN features |->
        IF features[k].entrypoint = "" THEN <<>>
        ELSE << [hook |-> "featureEntrypoint",
                 name |-> <<"featureEntrypoint", features[k].id>>, owner |-> k,
                 single |-> TRUE, subs |-> <<>>, runner |-> runner,
                 expands |-> features[k].entrypoint = "var"] >>])

(* ---- the state of the hook invocation in flight ---- *)
Idle == [st |-> "idle", gor |-> <<>>, res |-> <<>>, errs |-> <<>>]

HookStages == {"initializeCommand", "featureEntrypoints", "lifecycle"}

CallId(item, sub) == <<item.hook, item.owner, sub>>

\* the runner is invoked for a command under a display name
Invoke(item, name, sub) ==
    LET id == CallId(item, sub)
    IN  calls' = [c \in DOMAIN calls \cup {id} |->
                    IF c = id
                    THEN [name |-> name, runner |-> item.runner, status |-> "running",
                          n |-> IF id \in DOMAIN calls THEN calls[id].n + 1 ELSE 1]
                    ELSE calls[c]]

\* the runner invoked as command id returns
Returns(id, ok) ==
    /\ calls' = [calls EXCEPT ![id].status = IF ok THEN "ok" ELSE "err"]
    /\ firstErr' = IF ~ok /\ firstErr = NoErr THEN CommandErr(id) ELSE firstErr

\* return from StartDevcontainer: the id the call holds, and the error
Return(err) ==
    /\ pc' = "done"
    /\ ret' = [set |-> TRUE, id |-> containerID, err |-> err]
    /\ queue' = <<>>
    /\ cur' = Idle

NoJoin ==
    [seen |-> FALSE, hook |-> "", owner |-> 0, subs |-> <<>>,
     gor |-> <<>>, res |-> <<>>, result |-> NoErr]

(* ---- Init: the call's inputs ---- *)
UserHookChoices ==
    {h \in [Range(lifecycleOrder) -> {NilLC, SingleLC, ParallelLC}] :
        Cardinality({p \in DOMAIN h : ~h[p].nil}) <= MaxUserHooks}

FeatureOrders ==
    {s \in UNION {[1..n -> FeatureCatalog] : n \in 1..MaxFeatures} :
        \A i, j \in DOMAIN s : i # j => s[i] # s[j]}

\* the fields of startOptions that validateComposeOptions reads
ComposeOverrides ==
    {"ExtraPublish", "ExtraMounts", "RunArgs", "Network", "Workdir", "CPUQuota", "Memory"}

\* the start options of a call, as the set of those fields that are not zero.  Outside
\* compose mode they go into the arguments of docker run, which the model does not hold,
\* so only compose-mode calls set them.
StartOptionChoices(mode) ==
    IF mode = "compose"
    THEN {o \in SUBSET ComposeOverrides : Cardinality(o) <= MaxComposeOverrides}
    ELSE {{}}

StartInit ==
    /\ pc = "load"
    /\ \E mode \in {"single", "compose"}, variant \in {"godev", "internal"},
          fo \in FeatureOrders \cup {<<>>}, hooks \in UserHookChoices,
          ic \in {NilLC, SingleLC, ParallelLC} :
            /\ variant = "internal" => fo = <<>>
            /\ \E options \in StartOptionChoices(mode) :
                 cfg = [mode |-> mode, variant |-> variant, Order |-> fo,
                        userHooks |-> hooks, InitializeCommand |-> ic,
                        options |-> options]
    /\ queue = <<>>
    /\ cur = Idle
    /\ calls = <<>>
    /\ engineOps = <<>>
    /\ created = FALSE
    /\ containerID = ""
    /\ ret = NoRet
    /\ lastJoin = NoJoin
    /\ firstErr = NoErr

(* ---- StartDevcontainer, up to initializeCommand ---- *)
\* resolveConfigPath, LoadConfig, validateConfig, the compose branch
LoadConfig ==
    /\ pc = "load"
    /\ \E ok \in BOOLEAN :
        IF ok
        THEN /\ pc' = IF cfg.mode = "compose" THEN "composeOptions" ELSE "resolve"
             /\ UNCHANGED <<ret, queue, cur>>
        ELSE Return(StepErr("config"))
    /\ UNCHANGED <<cfg, outsideStart, calls, engineOps, created, containerID, lastJoin, firstErr>>

\* mutant: every start option is accepted in compose mode
validateComposeOptionsAcceptsAll(options) == ""

\* the error of validateComposeOptions, "" for nil
validateComposeOptions(options) ==
    IF "ExtraPublish" \in options THEN "compose does not support extra publishes"
    ELSE IF "ExtraMounts" \in options THEN "compose does not support extra mounts"
    ELSE IF "RunArgs" \in options THEN "compose does not support runArgs"
    ELSE IF "Network" \in options THEN "compose does not support network override"
    ELSE IF "Workdir" \in options THEN "compose does not support workdir override"
    ELSE IF "CPUQuota" \in options \/ "Memory" \in options
         THEN "compose does not support resource limits"
    ELSE ""

\* startComposeDevcontainer begins with validateComposeOptions
ValidateComposeOptions ==
    /\ pc = "composeOptions"
    /\ IF validateComposeOptions(cfg.options) = ""
       THEN pc' = "resolve" /\ UNCHANGED <<ret, queue, cur>>
       ELSE Return(StepErr("composeOptions"))
    /\ UNCHANGED <<cfg, outsideStart, calls, engineOps, created, containerID, lastJoin, firstErr>>

\* mutant: initializeCommand is not run
ResolveAndMergeEnvNoInit ==
    /\ pc = "resolve"
    /\ \E ok \in BOOLEAN :
        IF ok
        THEN pc' = "initializeCommand" /\ queue' = <<>> /\ UNCHANGED <<ret, cur>>
        ELSE Return(StepErr("resolve"))
    /\ UNCHANGED <<cfg, outsideStart, calls, engineOps, created, containerID, lastJoin, firstErr>>

\* workspace paths, resolveFeatures, mergeEnvMaps; then initializeCommand on the host
ResolveAndMergeEnv ==
    /\ pc = "resolve"
    /\ \E ok \in BOOLEAN :
        IF ok
        THEN /\ pc' = "initializeCommand"
             /\ queue' = runLifecycleCommands("initializeCommand", cfg.InitializeCommand,
                                              HostRunner, 0)
             /\ UNCHANGED <<ret, cur>>
        ELSE Return(StepErr("resolve"))
    /\ UNCHANGED <<cfg, outsideStart, calls, engineOps, created, containerID, lastJoin, firstErr>>

(* ---- the lifecycle engine: one hook invocation after the other ---- *)
\* the call made in a hook stage has returned nil
HookCallReturned(stage) == pc = stage /\ queue = <<>> /\ cur.st = "idle"

\* runLifecycleCommands on a Single: the runner is invoked
RunnerCall ==
    /\ pc \in HookStages /\ cur.st = "idle" /\ queue # <<>> /\ Head(queue).single
    /\ Invoke(Head(queue), Head(queue).name, "")
    /\ cur' = [Idle EXCEPT !.st = "single"]
    /\ UNCHANGED <<pc, cfg, outsideStart, queue, engineOps, created, containerID, ret, lastJoin, firstErr>>

\* featureEntrypointPath: expandVariables fails on the entrypoint, nothing is run
EntrypointPathError ==
    /\ pc \in HookStages /\ cur.st = "idle" /\ queue # <<>> /\ Head(queue).expands
    /\ Return(StepErr("entrypointPath"))
    /\ UNCHANGED <<cfg, outsideStart, calls, engineOps, created, containerID, lastJoin, firstErr>>

\* mutant: the error of a Single is dropped and the next invocation is made
RunnerReturnIgnoresError ==
    /\ cur.st = "single"
    /\ \E ok \in BOOLEAN : Returns(CallId(Head(queue), ""), ok)
    /\ queue' = Tail(queue)
    /\ cur' = Idle
    /\ UNCHANGED <<pc, ret, cfg, outsideStart, engineOps, created, containerID, lastJoin>>

\* the runner returns: nil goes on with the next invocation, an error returns it
RunnerReturn ==
    /\ cur.st = "single"
    /\ LET id == CallId(Head(queue), "")
       IN  \E ok \in BOOLEAN :
            /\ Returns(id, ok)
            /\ IF ok
               THEN queue' = Tail(queue) /\ cur' = Idle /\ UNCHANGED <<pc, ret>>
               ELSE Return(CommandErr(id))
    /\ UNCHANGED <<cfg, outsideStart, engineOps, created, containerID, lastJoin>>

(* ---- runParallelLifecycleCommands ---- *)
\* the loop: wg.Add(1) and one goroutine per named sub-command
ParallelSpawn ==
    /\ pc \in HookStages /\ cur.st = "idle" /\ queue # <<>> /\ ~Head(queue).single
    /\ LET n == Len(Head(queue).subs)
       IN  cur' = [st |-> "parallel", gor |-> [i \in 1..n |-> "spawned"],
                   res |-> [i \in 1..n |-> NoErr], errs |-> <<>>]
    /\ UNCHANGED <<pc, cfg, outsideStart, queue, calls, engineOps, created, containerID, ret, lastJoin, firstErr>>

\* mutant: sub-command i is started only when the ones before it have finished
SubStartInTurn(i) ==
    /\ cur.st = "parallel" /\ i \in DOMAIN cur.gor /\ cur.gor[i] = "spawned"
    /\ \A j \in 1..(i - 1) : cur.gor[j] = "done"
    /\ LET item == Head(queue)
       IN  Invoke(item, <<item.hook, item.subs[i]>>, item.subs[i])
    /\ cur' = [cur EXCEPT !.gor[i] = "running"]
    /\ UNCHANGED <<pc, cfg, outsideStart, queue, engineOps, created, containerID, ret, lastJoin, firstErr>>

\* goroutine i invokes the runner under the name "<hookName>:<command.Name>"
SubStart(i) ==
    /\ cur.st = "parallel" /\ i \in DOMAIN cur.gor /\ cur.gor[i] = "spawned"
    /\ LET item == Head(queue)
       IN  Invoke(item, <<item.hook, item.subs[i]>>, item.subs[i])
    /\ cur' = [cur EXCEPT !.gor[i] = "running"]
    /\ UNCHANGED <<pc, cfg, outsideStart, queue, engineOps, created, containerID, ret, lastJoin, firstErr>>

\* the runner of goroutine i returns
SubReturn(i) ==
    /\ cur.st = "parallel" /\ i \in DOMAIN cur.gor /\ cur.gor[i] = "running"
    /\ LET c == CallId(Head(queue), Head(queue).subs[i])
       IN  \E ok \in BOOLEAN :
            /\ Returns(c, ok)
            /\ cur' = [cur EXCEPT !.gor[i] = "returned",
                                  !.res[i] = IF ok THEN NoErr ELSE CommandErr(c)]
    /\ UNCHANGED <<pc, cfg, outsideStart, queue, engineOps, created, containerID, ret, lastJoin>>

\* errs <- result, then the deferred wg.Done()
SubSend(i) ==
    /\ cur.st = "parallel" /\ i \in DOMAIN cur.gor /\ cur.gor[i] = "returned"
    /\ cur' = [cur EXCEPT !.gor[i] = "done", !.errs = Append(cur.errs, cur.res[i])]
    /\ UNCHANGED <<pc, cfg, outsideStart, queue, calls, engineOps, created, containerID, ret, lastJoin, firstErr>>

\* for err := range errs: the first non-nil error of the closed channel
FirstError(errs) ==
    IF \E k \in DOMAIN errs : errs[k] # NoErr
    THEN errs[CHOOSE k \in DOMAIN errs :
                /\ errs[k] # NoErr
                /\ \A m \in 1..(k - 1) : errs[m] = NoErr]
    ELSE NoErr

\* mutant: the wait passes as soon as one goroutine is done
WaitGroupAnyDone == \E i \in DOMAIN cur.gor : cur.gor[i] = "done"

\* wg.Wait() has passed
WaitGroupDone == \A i \in DOMAIN cur.gor : cur.gor[i] = "done"

\* mutant: the call returns as soon as one goroutine has sent an error
ParallelJoinOnFirstError ==
    /\ cur.st = "parallel"
    /\ (WaitGroupDone \/ \E k \in DOMAIN cur.errs : cur.errs[k] # NoErr)
    /\ LET result == FirstError(cur.errs)
       IN  /\ lastJoin' = [seen |-> TRUE, hook |-> Head(queue).hook, owner |-> Head(queue).owner,
                            subs |-> Head(queue).subs,
                            gor |-> cur.gor, res |-> cur.res, result |-> result]
           /\ IF result = NoErr
              THEN queue' = Tail(queue) /\ cur' = Idle /\ UNCHANGED <<pc, ret>>
              ELSE Return(result)
    /\ UNCHANGED <<cfg, outsideStart, calls, engineOps, created, containerID, firstErr>>

\* wg.Wait(), close(errs), the drain loop and the return
ParallelJoin ==
    /\ cur.st = "parallel"
    /\ WaitGroupDone
    /\ LET result == FirstError(cur.errs)
       IN  /\ lastJoin' = [seen |-> TRUE, hook |-> Head(queue).hook, owner |-> Head(queue).owner,
                            subs |-> Head(queue).subs,
                            gor |-> cur.gor, res |-> cur.res, result |-> result]
           /\ IF result = NoErr
              THEN queue' = Tail(queue) /\ cur' = Idle /\ UNCHANGED <<pc, ret>>
              ELSE Return(result)
    /\ UNCHANGED <<cfg, outsideStart, calls, engineOps, created, containerID, firstErr>>

(* ---- StartDevcontainer, single-container mode, after initializeCommand ---- *)
\* newDockerClient, ensureImage: pullImage or buildImage
EnsureImage ==
    /\ HookCallReturned("initializeCommand") /\ cfg.mode = "single"
    /\ \E outcome \in {"clientErr", "imageErr", "ok"}, op \in {"pull", "build"} :
        /\ engineOps' = IF outcome = "clientErr" THEN engineOps ELSE Append(engineOps, op)
        /\ IF outcome = "ok"
           THEN /\ pc' = IF cfg.Order # <<>> THEN "featuresImage" ELSE "containerSpec"
                /\ UNCHANGED <<ret, queue, cur>>
           ELSE Return(StepErr(outcome))
    /\ UNCHANGED <<cfg, outsideStart, calls, created, containerID, lastJoin, firstErr>>

\* imageDefaultUser, buildFeaturesImage
BuildFeaturesImage ==
    /\ pc = "featuresImage"
    /\ \E outcome \in {"inspectErr", "buildErr", "ok"} :
        /\ engineOps' = IF outcome = "inspectErr" THEN Append(engineOps, "inspect")
                        ELSE engineOps \o <<"inspect", "build">>
        /\ IF outcome = "ok"
           THEN /\ pc' = IF cfg.mode = "compose" THEN "composeOverride" ELSE "containerSpec"
                /\ UNCHANGED <<ret, queue, cur>>
           ELSE Return(StepErr(outcome))
    /\ UNCHANGED <<cfg, outsideStart, calls, created, containerID, lastJoin, firstErr>>

\* mutant: the container is created before the memory limit is parsed
ContainerSpecAfterCreate ==
    /\ pc = "containerSpec"
    /\ engineOps' = Append(engineOps, "create")
    /\ created' = TRUE
    /\ \E ok \in BOOLEAN :
        IF ok
        THEN pc' = "start" /\ containerID' = ContainerId /\ UNCHANGED <<ret, queue, cur>>
        ELSE Return(StepErr("containerSpec")) /\ UNCHANGED containerID
    /\ UNCHANGED <<cfg, outsideStart, calls, lastJoin, firstErr>>

\* parseRunArgs, collectPortSpecs, parsePortSpecs, buildMounts, units.RAMInBytes
ContainerSpec ==
    /\ pc = "containerSpec"
    /\ \E ok \in BOOLEAN :
        IF ok
        THEN pc' = "create" /\ UNCHANGED <<ret, queue, cur>>
        ELSE Return(StepErr("containerSpec"))
    /\ UNCHANGED <<cfg, outsideStart, calls, engineOps, created, containerID, lastJoin, firstErr>>

ContainerCreate ==
    /\ pc = "create"
    /\ engineOps' = Append(engineOps, "create")
    /\ \E ok \in BOOLEAN :
        IF ok
        THEN /\ pc' = "start"
             /\ created' = TRUE
             /\ containerID' = ContainerId
             /\ UNCHANGED <<ret, queue, cur>>
        ELSE Return(StepErr("create")) /\ UNCHANGED <<created, containerID>>
    /\ UNCHANGED <<cfg, outsideStart, calls, lastJoin, firstErr>>

ContainerStart ==
    /\ pc = "start"
    /\ engineOps' = Append(engineOps, "start")
    /\ \E ok \in BOOLEAN :
        IF ok
        THEN pc' = "lifecycleEnv" /\ UNCHANGED <<ret, queue, cur>>
        ELSE Return(StepErr("start"))
    /\ UNCHANGED <<cfg, outsideStart, calls, created, containerID, lastJoin, firstErr>>

\* the five user hooks, as both callers build them
UserHookList ==
    [h \in DOMAIN lifecycleOrder |->
        [Name |-> lifecycleOrder[h], Commands |-> cfg.userHooks[lifecycleOrder[h]]]]

LifecyclePlan ==
    IF cfg.variant = "internal"
    THEN runLifecycleSequence(UserHookList, ContainerRunner("remoteUser"))
    ELSE runLifecycleWithFeatures(cfg.Order, cfg.userHooks, ContainerRunner("remoteUser"))

\* mutant: the lifecycle hooks are run without the feature entrypoints
BuildLifecycleEnvNoEntrypoints ==
    /\ pc = "lifecycleEnv"
    /\ \E ok \in BOOLEAN :
        IF ok
        THEN pc' = "lifecycle" /\ queue' = LifecyclePlan /\ UNCHANGED <<ret, cur>>
        ELSE Return(StepErr("lifecycleEnv"))
    /\ UNCHANGED <<cfg, outsideStart, calls, engineOps, created, containerID, lastJoin, firstErr>>

\* buildLifecycleEnv; then runFeatureEntrypoints as root when there are features
BuildLifecycleEnv ==
    /\ pc = "lifecycleEnv"
    /\ \E ok \in BOOLEAN :
        IF ok
        THEN /\ IF cfg.Order # <<>>
                THEN /\ pc' = "featureEntrypoints"
                     /\ queue' = runFeatureEntrypoints(cfg.Order, ContainerRunner("root"))
                ELSE /\ pc' = "lifecycle"
                     /\ queue' = LifecyclePlan
             /\ UNCHANGED <<ret, cur>>
        ELSE Return(StepErr("lifecycleEnv"))
    /\ UNCHANGED <<cfg, outsideStart, calls, engineOps, created, containerID, lastJoin, firstErr>>

\* runFeatureEntrypoints returned nil: runLifecycleWithFeatures
RunLifecycle ==
    /\ HookCallReturned("featureEntrypoints")
    /\ pc' = "lifecycle"
    /\ queue' = LifecyclePlan
    /\ UNCHANGED <<cfg, outsideStart, cur, calls, engineOps, created, containerID, ret, lastJoin, firstErr>>

\* the lifecycle returned nil: return when detached, else wait for the container
LifecycleDone ==
    /\ HookCallReturned("lifecycle")
    /\ \E detach \in BOOLEAN :
        IF detach
        THEN Return(NoErr)
        ELSE pc' = "wait" /\ UNCHANGED <<ret, queue, cur>>
    /\ UNCHANGED <<cfg, outsideStart, calls, engineOps, created, containerID, lastJoin, firstErr>>

\* ContainerWait / waitForContainerExit
WaitForExit ==
    /\ pc = "wait"
    /\ engineOps' = Append(engineOps, "wait")
    /\ \E outcome \in {"waitErr", "exitStatus", "ok"} :
        Return(IF outcome = "ok" THEN NoErr ELSE StepErr(outcome))
    /\ UNCHANGED <<cfg, outsideStart, calls, created, containerID, lastJoin, firstErr>>

(* ---- startComposeDevcontainer, after initializeCommand ---- *)
\* resolveComposeFiles, loadComposeProject, findComposeService, newDockerClient
ComposeLoadProject ==
    /\ HookCallReturned("initializeCommand") /\ cfg.mode = "compose"
    /\ \E ok \in BOOLEAN :
        IF ok
        THEN /\ pc' = IF cfg.Order # <<>> THEN "composeBaseImage" ELSE "composeOverride"
             /\ UNCHANGED <<ret, queue, cur>>
        ELSE Return(StepErr("composeProject"))
    /\ UNCHANGED <<cfg, outsideStart, calls, engineOps, created, containerID, lastJoin, firstErr>>

\* features need service.image; pullImage
ComposeBaseImage ==
    /\ pc = "composeBaseImage"
    /\ \E outcome \in {"noImage", "pullErr", "ok"} :
        /\ engineOps' = IF outcome = "noImage" THEN engineOps ELSE Append(engineOps, "pull")
        /\ IF outcome = "ok"
           THEN pc' = "featuresImage" /\ UNCHANGED <<ret, queue, cur>>
           ELSE Return(StepErr(outcome))
    /\ UNCHANGED <<cfg, outsideStart, calls, created, containerID, lastJoin, firstErr>>

\* buildComposeOverride, writeComposeOverride
ComposeOverride ==
    /\ pc = "composeOverride"
    /\ \E ok \in BOOLEAN :
        IF ok
        THEN pc' = "composeUp" /\ UNCHANGED <<ret, queue, cur>>
        ELSE Return(StepErr("composeOverride"))
    /\ UNCHANGED <<cfg, outsideStart, calls, engineOps, created, containerID, lastJoin, firstErr>>

\* docker compose up -d: creates and starts the project's containers; a failing
\* run may already have created some
ComposeUp ==
    /\ pc = "composeUp"
    /\ engineOps' = Append(engineOps, "composeUp")
    /\ \E ok \in BOOLEAN :
        IF ok
        THEN /\ pc' = "composePs"
             /\ created' = TRUE
             /\ UNCHANGED <<ret, queue, cur>>
        ELSE /\ Return(StepErr("composeUp"))
             /\ created' \in BOOLEAN
    /\ UNCHANGED <<cfg, outsideStart, calls, containerID, lastJoin, firstErr>>

\* docker compose ps -q <service>: fails, prints nothing, or prints the primary id
ComposePrimaryContainerID ==
    /\ pc = "composePs"
    /\ engineOps' = Append(engineOps, "composePs")
    /\ \E outcome \in {"psErr", "notFound", "ok"} :
        IF outcome = "ok"
        THEN /\ pc' = "lifecycleEnv"
             /\ containerID' = ContainerId
             /\ UNCHANGED <<ret, queue, cur>>
        ELSE Return(StepErr(outcome)) /\ UNCHANGED containerID
    /\ UNCHANGED <<cfg, outsideStart, calls, created, lastJoin, firstErr>>

StartNext ==
    \/ LoadConfig
    \/ ValidateComposeOptions
    \/ ResolveAndMergeEnv
    \/ RunnerCall
    \/ EntrypointPathError
    \/ RunnerReturn
    \/ ParallelSpawn
    \/ \E i \in 1..MaxSub : SubStart(i)
    \/ \E i \in 1..MaxSub : SubReturn(i)
    \/ \E i \in 1..MaxSub : SubSend(i)
    \/ ParallelJoin
    \/ EnsureImage
    \/ BuildFeaturesImage
    \/ ContainerSpec
    \/ ContainerCreate
    \/ ContainerStart
    \/ BuildLifecycleEnv
    \/ RunLifecycle
    \/ LifecycleDone
    \/ WaitForExit
    \/ ComposeLoadProject
    \/ ComposeBaseImage
    \/ ComposeOverride
    \/ ComposeUp
    \/ ComposePrimaryContainerID

(***************************************************************************)
(* The feature orderer: orderFeatures                                      *)
(***************************************************************************)
(* ---- strings, as the bytes Go compares ---- *)
Str_bar == <<98, 97, 114>>
Str_baz == <<98, 97, 122>>
Str_Baz == <<66, 97, 122>>
Str_foo == <<102, 111, 111>>
Str_zzz == <<122, 122, 122>>
Str_latest == <<108, 97, 116, 101, 115, 116>>
Str_1 == <<49>>
Str_2 == <<50>>
Str_10 == <<49, 48>>
Str_version == <<118, 101, 114, 115, 105, 111, 110>>
Str_at == <<64>>

\* a < b on Go strings: bytewise lexicographic
RECURSIVE StrLess(_, _)
StrLess(a, b) ==
    IF b = <<>> THEN FALSE
    ELSE IF a = <<>> THEN TRUE
    ELSE IF Head(a) # Head(b) THEN Head(a) < Head(b)
    ELSE StrLess(Tail(a), Tail(b))

IsSpaceByte(b) == b \in {9, 10, 11, 12, 13, 32}

RECURSIVE TrimLeft(_)
TrimLeft(a) == IF a # <<>> /\ IsSpaceByte(Head(a)) THEN TrimLeft(Tail(a)) ELSE a

RECURSIVE TrimRight(_)
TrimRight(a) ==
    IF a # <<>> /\ IsSpaceByte(a[Len(a)]) THEN TrimRight(SubSeq(a, 1, Len(a) - 1)) ELSE a

TrimSpace(a) == TrimRight(TrimLeft(a))

ToLower(a) == [i \in DOMAIN a |-> IF a[i] >= 65 /\ a[i] <= 90 THEN a[i] + 32 ELSE a[i]]

normalizeFeatureID(id) == ToLower(TrimSpace(id))

(* ---- featureLess and what it calls ---- *)
\* strings.Split(value, "."): the parts between the dots
RECURSIVE SplitDots(_, _)
SplitDots(a, part) ==
    IF a = <<>> THEN <<part>>
    ELSE IF Head(a) = 46 THEN <<part>> \o SplitDots(Tail(a), <<>>)
    ELSE SplitDots(Tail(a), Append(part, Head(a)))

IsDigits(a) == a # <<>> /\ \A i \in DOMAIN a : a[i] >= 48 /\ a[i] <= 57

RECURSIVE DigitsValue(_)
DigitsValue(a) ==
    IF a = <<>> THEN 0 ELSE 10 * DigitsValue(SubSeq(a, 1, Len(a) - 1)) + (a[Len(a)] - 48)

\* strconv.Atoi: an optional sign, then decimal digits
AtoiOK(a) ==
    IF a # <<>> /\ Head(a) \in {43, 45} THEN IsDigits(Tail(a)) ELSE IsDigits(a)

Atoi(a) ==
    IF Head(a) = 45 THEN 0 - DigitsValue(Tail(a))
    ELSE IF Head(a) = 43 THEN DigitsValue(Tail(a))
    ELSE DigitsValue(a)

parseSemver(value) ==
    IF value = <<>> THEN [ok |-> FALSE, parts |-> <<>>]
    ELSE LET parts == SplitDots(value, <<>>)
         IN  IF \A i \in DOMAIN parts : parts[i] # <<>> /\ AtoiOK(parts[i])
             THEN [ok |-> TRUE, parts |-> [i \in DOMAIN parts |-> Atoi(parts[i])]]
             ELSE [ok |-> FALSE, parts |-> <<>>]

RECURSIVE ComparePartsFrom(_, _, _)
ComparePartsFrom(aParts, bParts, i) ==
    IF i > Len(aParts) /\ i > Len(bParts) THEN 0
    ELSE LET aVal == IF i <= Len(aParts) THEN aParts[i] ELSE 0
             bVal == IF i <= Len(bParts) THEN bParts[i] ELSE 0
         IN  IF aVal # bVal THEN (IF aVal < bVal THEN -1 ELSE 1)
             ELSE ComparePartsFrom(aParts, bParts, i + 1)

compareFeatureTag(a, b) ==
    IF a = b THEN 0
    ELSE IF a = Str_latest THEN 1
    ELSE IF b = Str_latest THEN -1
    ELSE LET pa == parseSemver(a)
             pb == parseSemver(b)
         IN  IF pa.ok /\ pb.ok THEN ComparePartsFrom(pa.parts, pb.parts, 1)
             ELSE IF StrLess(a, b) THEN -1 ELSE 1

\* sort.Strings over the keys of a map
RECURSIVE SortStrings(_)
SortStrings(S) ==
    IF S = {} THEN <<>>
    ELSE LET m == CHOOSE x \in S : \A y \in S : ~StrLess(y, x)
         IN  <<m>> \o SortStrings(S \ {m})

sortedKeys(values) == SortStrings(DOMAIN values)

valuesForKeys(values, keys) == [i \in DOMAIN keys |-> values[keys[i]]]

RECURSIVE CompareSlicesFrom(_, _, _)
CompareSlicesFrom(a, b, i) ==
    IF i > Len(a) /\ i > Len(b) THEN 0
    ELSE IF i > Len(a) THEN -1
    ELSE IF i > Len(b) THEN 1
    ELSE IF a[i] = b[i] THEN CompareSlicesFrom(a, b, i + 1)
    ELSE IF StrLess(a[i], b[i]) THEN -1
    ELSE 1

compareStringSlices(a, b) == CompareSlicesFrom(a, b, 1)

\* mutant: the base name is not compared
featureLessNoBaseName(a, b) ==
    IF a.Tag # b.Tag THEN compareFeatureTag(a.Tag, b.Tag) < 0
    ELSE StrLess(a.CanonicalName, b.CanonicalName)

featureLess(a, b) ==
    IF a.BaseName # b.BaseName THEN StrLess(a.BaseName, b.BaseName)
    ELSE IF a.Tag # b.Tag THEN compareFeatureTag(a.Tag, b.Tag) < 0
    ELSE LET aCount == Cardinality(DOMAIN a.UserValues)
             bCount == Cardinality(DOMAIN b.UserValues)
         IN  IF aCount # bCount THEN aCount > bCount
             ELSE LET aKeys == sortedKeys(a.UserValues)
                      bKeys == sortedKeys(b.UserValues)
                      keyDiff == compareStringSlices(aKeys, bKeys)
                  IN  IF keyDiff # 0 THEN keyDiff < 0
                      ELSE LET valueDiff == compareStringSlices(valuesForKeys(a.UserValues, aKeys),
                                                                valuesForKeys(b.UserValues, bKeys))
                           IN  IF valueDiff # 0 THEN valueDiff < 0
                               ELSE StrLess(a.CanonicalName, b.CanonicalName)

\* sort.SliceStable on a slice of at most twenty elements: insertion sort with less
RECURSIVE InsertStable(_, _, _)
InsertStable(sorted, x, j) ==
    IF j > 0 /\ featureLess(x, sorted[j]) THEN InsertStable(sorted, x, j - 1)
    ELSE SubSeq(sorted, 1, j) \o <<x>> \o SubSeq(sorted, j + 1, Len(sorted))

RECURSIVE SliceStable(_)
SliceStable(data) ==
    IF data = <<>> THEN <<>>
    ELSE LET front == SliceStable(SubSeq(data, 1, Len(data) - 1))
         IN  InsertStable(front, data[Len(data)], Len(front))

(* ---- the resolved features orderFeatures is called with ---- *)
NoValues == <<>>

\* identity of a resolved feature: key, base name, tag, user options, canonical name
FeaturePool ==
    { [DependencyKey |-> "bar-key", BaseName |-> Str_bar, Tag |-> Str_1,
       UserValues |-> NoValues, CanonicalName |-> Str_bar \o Str_at \o Str_1],
      [DependencyKey |-> "baz-key", BaseName |-> Str_baz, Tag |-> Str_latest,
       UserValues |-> NoValues, CanonicalName |-> Str_baz \o Str_at \o Str_1],
      [DependencyKey |-> "foo2-key", BaseName |-> Str_foo, Tag |-> Str_2,
       UserValues |-> NoValues, CanonicalName |-> Str_foo \o Str_at \o Str_2],
      [DependencyKey |-> "foo10-key", BaseName |-> Str_foo, Tag |-> Str_10,
       UserValues |-> (Str_version :> Str_1), CanonicalName |-> Str_foo \o Str_at \o Str_10] }

\* ids a feature may name in installsAfter, and ids the override list may hold
AfterIds == {Str_bar, Str_baz, Str_foo, Str_zzz}
OverrideIds == {Str_foo, Str_Baz, Str_zzz}

Perms(S) == {p \in [1..Cardinality(S) -> S] : \A i, j \in DOMAIN p : i # j => p[i] # p[j]}

UpTo(E, n) ==
    IF n = 0 THEN {{}}
    ELSE IF n = 1 THEN {{}} \cup {{e} : e \in E}
    ELSE IF n = 2 THEN {{e1, e2} : e1, e2 \in E} \cup {{}}
    ELSE {{e1, e2, e3} : e1, e2, e3 \in E} \cup {{}}

Overrides ==
    {s \in UNION {[1..n -> OverrideIds] : n \in 0..MaxOverride} :
        \A i, j \in DOMAIN s : i # j => s[i] # s[j]}

OrderIdle ==
    /\ inFeatures = <<>>
    /\ inOverride = <<>>
    /\ opc = "off"
    /\ remaining = {}
    /\ order = <<>>
    /\ orderRet = [kind |-> "none"]

\* a call: a list of distinct features with their dependsOn keys and installsAfter ids
OrderInit ==
    /\ \E plan \in {P \in SUBSET FeaturePool : Cardinality(P) <= MaxPlan} :
        \E list \in Perms(plan) :
            LET keys == {f.DependencyKey : f \in plan}
                depEdges == {e \in keys \X keys : e[1] # e[2]}
                afterEdges == keys \X AfterIds
            IN  \E edges \in UpTo(({"dep"} \X depEdges) \cup ({"after"} \X afterEdges), MaxEdges) :
                    inFeatures =
                        [i \in DOMAIN list |->
                            [DependencyKey |-> list[i].DependencyKey,
                             BaseName |-> list[i].BaseName,
                             Tag |-> list[i].Tag,
                             UserValues |-> list[i].UserValues,
                             CanonicalName |-> list[i].CanonicalName,
                             DependsOnKeys |->
                                {e[2][2] : e \in {x \in edges :
                                    x[1] = "dep" /\ x[2][1] = list[i].DependencyKey}},
                             InstallsAfterIDs |->
                                {e[2][2] : e \in {x \in edges :
                                    x[1] = "after" /\ x[2][1] = list[i].DependencyKey}},
                             InstallsAfterKeys |-> {}]]
    /\ inOverride \in Overrides
    /\ opc = "call"
    /\ remaining = {}
    /\ order = <<>>
    /\ orderRet = [kind |-> "none"]

(* ---- orderFeatures ---- *)
\* baseNameToKeys: base name -> the keys of the features of that name, in list order
baseNameToKeys(features) ==
    [name \in {features[i].BaseName : i \in DOMAIN features} |->
        LET idx == SelectSeq([i \in DOMAIN features |-> i],
                             LAMBDA i : features[i].BaseName = name)
        IN  [k \in DOMAIN idx |-> features[idx[k]].DependencyKey]]

\* mutant: an installsAfter id that is not in the plan is waited for like a key
WithInstallsAfterKeysUnknownWaits(features) ==
    LET byName == baseNameToKeys(features)
    IN  [i \in DOMAIN features |->
            [features[i] EXCEPT !.InstallsAfterKeys =
                UNION {Range(byName[id]) :
                         id \in features[i].InstallsAfterIDs \cap DOMAIN byName}
                \cup (IF features[i].InstallsAfterIDs \ DOMAIN byName # {}
                      THEN {"unknown"} ELSE {})]]

\* the second loop: InstallsAfterKeys gets the keys of every known installsAfter id
\* (DependsOnKeys, InstallsAfterIDs, InstallsAfterKeys are slices read for membership only)
WithInstallsAfterKeys(features) ==
    LET byName == baseNameToKeys(features)
    IN  [i \in DOMAIN features |->
            [features[i] EXCEPT !.InstallsAfterKeys =
                UNION {Range(byName[id]) :
                         id \in features[i].InstallsAfterIDs \cap DOMAIN byName}]]

\* nodes: dependency key -> feature
nodes(key) == CHOOSE f \in Range(inFeatures) : f.DependencyKey = key

\* mutant: the priority grows with the position in the list
computeOverridePriorityAscending(ids) ==
    LET named == {normalizeFeatureID(ids[i]) : i \in DOMAIN ids} \ {<<>>}
    IN  [id \in named |->
            CHOOSE i \in DOMAIN ids :
                /\ normalizeFeatureID(ids[i]) = id
                /\ \A j \in DOMAIN ids : normalizeFeatureID(ids[j]) = id => j <= i]

computeOverridePriority(ids) ==
    LET total == Len(ids)
        named == {normalizeFeatureID(ids[i]) : i \in DOMAIN ids} \ {<<>>}
    IN  [id \in named |->
            LET last == CHOOSE i \in DOMAIN ids :
                            /\ normalizeFeatureID(ids[i]) = id
                            /\ \A j \in DOMAIN ids : normalizeFeatureID(ids[j]) = id => j <= i
            IN  total - (last - 1)]

\* priority[name], with the zero value of a missing key
PriorityOf(priority, name) == IF name \in DOMAIN priority THEN priority[name] ELSE 0

validateOverrideUsage(priority, features) ==
    IF DOMAIN priority = {} THEN TRUE
    ELSE LET known == {features[i].BaseName : i \in DOMAIN features}
         IN  \A id \in DOMAIN priority : id \in known

\* mutant: installsAfter is not looked at
canInstallDependsOnOnly(node, installed) ==
    \A dep \in node.DependsOnKeys : dep \in Range(installed)

\* mutant: a feature does not wait for its own key
canInstallSkipsOwnKey(node, installed) ==
    LET installedSet == Range(installed) \cup {node.DependencyKey}
    IN  /\ \A dep \in node.DependsOnKeys : dep \in installedSet
        /\ \A dep \in node.InstallsAfterKeys : dep = "" \/ dep \in installedSet

canInstall(node, installed) ==
    LET installedSet == Range(installed)
    IN  /\ \A dep \in node.DependsOnKeys : dep \in installedSet
        /\ \A dep \in node.InstallsAfterKeys : dep = "" \/ dep \in installedSet

Max(S) == CHOOSE x \in S : \A y \in S : y <= x

\* the features of remaining that can be installed on top of order
Installable == {key \in remaining : canInstall(nodes(key), order)}

\* entry of orderFeatures: the empty list returns at once; else the maps are built
OrderStart ==
    /\ opc = "call"
    /\ IF Len(inFeatures) = 0
       THEN /\ opc' = "done"
            /\ orderRet' = [kind |-> "ok"]
            /\ UNCHANGED <<inFeatures, remaining>>
       ELSE /\ opc' = "loop"
            /\ inFeatures' = WithInstallsAfterKeys(inFeatures)
            /\ remaining' = {inFeatures[i].DependencyKey : i \in DOMAIN inFeatures}
            /\ UNCHANGED orderRet
    /\ UNCHANGED <<inOverride, order, outsideOrder>>

\* mutant: a committed feature stays in remaining
deleteCommittedNever(rem, committed) == rem

\* delete(remaining, node.DependencyKey) for every node of the commit set
deleteCommitted(rem, committed) == rem \ {committed[i].DependencyKey : i \in DOMAIN committed}

\* one pass of the loop: the round in the map's iteration order, the commit subset of
\* top priority, the stable sort, the append (a singleton \E names a value computed once)
OrderRound ==
    /\ opc = "loop" /\ remaining # {}
    /\ \E installable \in {Installable} :
        /\ installable # {}
        /\ \E iteration \in Perms(installable) :
            \E round \in {[i \in DOMAIN iteration |-> nodes(iteration[i])]} :
                LET priority == computeOverridePriority(inOverride)
                    maxPriority == Max({0} \cup {PriorityOf(priority, round[i].BaseName) :
                                                    i \in DOMAIN round})
                    commit == SelectSeq(round,
                                        LAMBDA n : PriorityOf(priority, n.BaseName) = maxPriority)
                IN  \E sorted \in {SliceStable(commit)} :
                        /\ order' = order \o [i \in DOMAIN sorted |-> sorted[i].DependencyKey]
                        /\ remaining' = deleteCommitted(remaining, sorted)
    /\ UNCHANGED <<inFeatures, inOverride, opc, orderRet, outsideOrder>>

\* an empty round: "feature dependency cycle detected"
OrderCycle ==
    /\ opc = "loop" /\ remaining # {} /\ Installable = {}
    /\ opc' = "done"
    /\ order' = <<>>
    /\ orderRet' = [kind |-> "cycle"]
    /\ UNCHANGED <<inFeatures, inOverride, remaining, outsideOrder>>

\* the loop is over: validateOverrideUsage, then the order is returned
OrderReturn ==
    /\ opc = "loop" /\ remaining = {}
    /\ opc' = "done"
    /\ IF validateOverrideUsage(computeOverridePriority(inOverride), inFeatures)
       THEN orderRet' = [kind |-> "ok"] /\ UNCHANGED order
       ELSE orderRet' = [kind |-> "unknownOverride"] /\ order' = <<>>
    /\ UNCHANGED <<inFeatures, inOverride, remaining, outsideOrder>>

OrderNext ==
    \/ OrderStart
    \/ OrderRound
    \/ OrderCycle
    \/ OrderReturn

(***************************************************************************)
(* The feature resolver: resolveFeatures, resolveRequest, fetchAndParse    *)
(***************************************************************************)
(* ---- byte strings and their text ---- *)
Str_r_foo == <<114, 47, 102, 111, 111>>
Str_r_foo_latest == <<114, 47, 102, 111, 111, 58, 108, 97, 116, 101, 115, 116>>
Str_r_bar == <<114, 47, 98, 97, 114>>
Str_true == <<116, 114, 117, 101>>
Str_false == <<102, 97, 108, 115, 101>>
Str_color == <<99, 111, 108, 111, 114>>
Str_debug == <<100, 101, 98, 117, 103>>
Str_digestFoo == <<115, 104, 97, 50, 53, 54, 58, 102>>
Str_digestBar == <<115, 104, 97, 50, 53, 54, 58, 98>>

LowerCase == <<"a", "b", "c", "d", "e", "f", "g", "h", "i", "j", "k", "l", "m",
               "n", "o", "p", "q", "r", "s", "t", "u", "v", "w", "x", "y", "z">>
UpperCase == <<"A", "B", "C", "D", "E", "F", "G", "H", "I", "J", "K", "L", "M",
               "N", "O", "P", "Q", "R", "S", "T", "U", "V", "W", "X", "Y", "Z">>
Digits == <<"0", "1", "2", "3", "4", "5", "6", "7", "8", "9">>

\* the character of one byte, as %s prints it
Chr(b) ==
    IF b >= 97 /\ b <= 122 THEN LowerCase[b - 96]
    ELSE IF b >= 65 /\ b <= 90 THEN UpperCase[b - 64]
    ELSE IF b >= 48 /\ b <= 57 THEN Digits[b - 47]
    ELSE IF b = 47 THEN "/"
    ELSE IF b = 58 THEN ":"
    ELSE IF b = 64 THEN "@"
    ELSE IF b = 46 THEN "."
    ELSE IF b = 32 THEN " "
    ELSE IF b = 0 THEN "|"
    ELSE "?"

RECURSIVE TextFrom(_, _)
TextFrom(a, i) == IF i > Len(a) THEN "" ELSE Chr(a[i]) \o TextFrom(a, i + 1)

Text(a) == TextFrom(a, 1)

HasPrefix(a, p) == Len(a) >= Len(p) /\ SubSeq(a, 1, Len(p)) = p

\* strings.Index / strings.LastIndex of one byte, 0 when absent
IndexByte(a, b) ==
    IF \E i \in DOMAIN a : a[i] = b
    THEN CHOOSE i \in DOMAIN a : a[i] = b /\ \A j \in DOMAIN a : a[j] = b => i <= j
    ELSE 0

LastIndexByte(a, b) ==
    IF \E i \in DOMAIN a : a[i] = b
    THEN CHOOSE i \in DOMAIN a : a[i] = b /\ \A j \in DOMAIN a : a[j] = b => j <= i
    ELSE 0

(* ---- FeatureOptionValue ---- *)
StringOption(s) == [kind |-> "string", s |-> s, b |-> FALSE]
BoolOption(b) == [kind |-> "bool", s |-> <<>>, b |-> b]
ZeroOption == [kind |-> "zero", s |-> <<>>, b |-> FALSE]

StringValue(v) ==
    IF v.kind = "string" THEN [err |-> FALSE, value |-> v.s]
    ELSE IF v.kind = "bool" THEN [err |-> FALSE, value |-> IF v.b THEN Str_true ELSE Str_false]
    ELSE [err |-> TRUE, value |-> <<>>]

matchesType(v, expected) ==
    IF expected = "string" THEN v.kind = "string"
    ELSE IF expected = "boolean" THEN v.kind = "bool"
    ELSE FALSE

(* ---- resolveFeatureOptions ---- *)
NoOptions == <<>>

\* the loop over the definitions, in the iteration order names of the map
RECURSIVE resolveOptionDefinitions(_, _, _, _)
resolveOptionDefinitions(defs, user, names, res) ==
    IF names = <<>> THEN res
    ELSE LET name == Head(names)
             def == defs[name]
         IN  IF def.Type = "" THEN [res EXCEPT !.err = "missingType"]
             ELSE IF ~matchesType(def.Default, def.Type)
                  THEN [res EXCEPT !.err = "defaultType"]
             ELSE IF name \in DOMAIN user
                  THEN IF ~matchesType(user[name], def.Type)
                       THEN [res EXCEPT !.err = "userType"]
                       ELSE LET sv == StringValue(user[name])
                            IN  IF sv.err THEN [res EXCEPT !.err = "missingValue"]
                                ELSE resolveOptionDefinitions(defs, user, Tail(names),
                                        [res EXCEPT !.Values = (name :> sv.value) @@ @,
                                                    !.UserValues = (name :> sv.value) @@ @])
             ELSE LET dv == StringValue(def.Default)
                  IN  IF dv.err THEN [res EXCEPT !.err = "missingValue"]
                      ELSE resolveOptionDefinitions(defs, user, Tail(names),
                              [res EXCEPT !.Values = (name :> dv.value) @@ @])

\* mutant: a user key the feature does not declare is let through
resolveFeatureOptionsAnyUserKey(defs, user, names) ==
    LET res == [err |-> "none", Values |-> NoOptions, UserValues |-> NoOptions]
    IN  IF DOMAIN user # {} /\ DOMAIN defs = {} THEN [res EXCEPT !.err = "noOptions"]
        ELSE resolveOptionDefinitions(defs, user, names, res)

\* names: the order in which the range over defs visits the option names
resolveFeatureOptions(defs, user, names) ==
    LET res == [err |-> "none", Values |-> NoOptions, UserValues |-> NoOptions]
    IN  IF DOMAIN user # {} /\ DOMAIN defs = {} THEN [res EXCEPT !.err = "noOptions"]
        ELSE IF \E key \in DOMAIN user : key \notin DOMAIN defs /\ DOMAIN defs # {}
             THEN [res EXCEPT !.err = "unsupported"]
        ELSE resolveOptionDefinitions(defs, user, names, res)

(* ---- keys ---- *)
\* the bytes hashed: key, 0, value, 0 for the keys in sorted order
RECURSIVE HashedBytes(_, _)
HashedBytes(options, keys) ==
    IF keys = <<>> THEN <<>>
    ELSE Head(keys) \o <<0>> \o options[Head(keys)] \o <<0>> \o HashedBytes(options, Tail(keys))

\* SHA-256 is taken as collision free: the digest is written as the text it hashes
hashFeatureOptions(options) ==
    IF DOMAIN options = {} THEN "none"
    ELSE "sha256(" \o Text(HashedBytes(options, SortStrings(DOMAIN options))) \o ")"

\* mutant: the resolved values are left out of the key
featureEqualityKeyNoValues(source, digest, options) ==
    source \o ":" \o Text(digest) \o ":" \o "none"

featureEqualityKey(source, digest, options) ==
    LET hash == hashFeatureOptions(options)
    IN  IF source = "local" THEN "local:" \o Text(digest) \o ":" \o hash
        ELSE IF source = "http" THEN "http:" \o Text(digest) \o ":" \o hash
        ELSE "oci:" \o Text(digest) \o ":" \o hash

\* the option values of a request in string form; err when one has no value
featureRequestKey(ref, options) ==
    IF \E key \in DOMAIN options : StringValue(options[key]).err
    THEN [err |-> TRUE, key |-> ""]
    ELSE LET values == [key \in DOMAIN options |-> StringValue(options[key]).value]
         IN  [err |-> FALSE,
              key |-> ref.Source \o ":" \o Text(normalizeFeatureID(ref.ID)) \o ":"
                        \o hashFeatureOptions(values)]

(* ---- references ---- *)
NoReference ==
    [ok |-> FALSE, ID |-> <<>>, Source |-> "", Registry |-> <<>>, Repository |-> <<>>,
     Reference |-> <<>>]

parseOCIReference(id) ==
    LET slash == IndexByte(id, 47)
    IN  IF slash = 0 THEN NoReference
        ELSE LET registry == SubSeq(id, 1, slash - 1)
                 repo == SubSeq(id, slash + 1, Len(id))
                 at == IndexByte(repo, 64)
                 lastSlash == LastIndexByte(repo, 47)
                 last == SubSeq(repo, lastSlash + 1, Len(repo))
                 idx == LastIndexByte(last, 58)
             IN  IF at # 0
                 THEN [ok |-> TRUE, ID |-> id, Source |-> "oci", Registry |-> registry,
                       Repository |-> SubSeq(repo, 1, at - 1),
                       Reference |-> SubSeq(repo, at + 1, Len(repo))]
                 ELSE IF idx # 0
                 THEN IF idx = Len(last) THEN NoReference
                      ELSE [ok |-> TRUE, ID |-> id, Source |-> "oci", Registry |-> registry,
                            Repository |-> SubSeq(repo, 1, lastSlash + idx - 1),
                            Reference |-> SubSeq(last, idx + 1, Len(last))]
                 ELSE [ok |-> TRUE, ID |-> id, Source |-> "oci", Registry |-> registry,
                       Repository |-> repo, Reference |-> Str_latest]

parseFeatureReference(id) ==
    LET trimmed == TrimSpace(id)
        normalized == normalizeFeatureID(trimmed)
    IN  IF trimmed = <<>> THEN NoReference
        ELSE IF HasPrefix(normalized, <<104, 116, 116, 112, 58, 47, 47>>)
                \/ HasPrefix(normalized, <<104, 116, 116, 112, 115, 58, 47, 47>>)
             THEN [NoReference EXCEPT !.ok = TRUE, !.ID = trimmed, !.Source = "http"]
        ELSE IF HasPrefix(trimmed, <<46>>)
             THEN [NoReference EXCEPT !.ok = TRUE, !.ID = trimmed, !.Source = "local"]
        ELSE parseOCIReference(trimmed)

(* ---- the features the registry serves ---- *)
RequestIds == {Str_r_foo, Str_r_foo_latest, Str_r_bar}

RequestOptions ==
    {NoOptions, (Str_version :> StringOption(Str_1)), (Str_version :> StringOption(Str_2))}

\* parseFeatureReference of every id of the model, evaluated once
References == [id \in RequestIds |-> parseFeatureReference(id)]

\* featureRequestKey of every request of the model, evaluated once
RequestKeys ==
    [id \in RequestIds, options \in RequestOptions |->
        featureRequestKey(References[id], options)]

\* the options each served feature declares: foo has version (default "1"), bar has none
MetadataOptions ==
    (Str_digestFoo :> (Str_version :> [Type |-> "string", Default |-> StringOption(Str_1)]))
    @@ (Str_digestBar :> NoOptions)

\* the orders in which a range over each map of defs may visit its keys
IterationOrders(defs) ==
    {f \in [DOMAIN defs -> UNION {Perms(DOMAIN defs[d]) : d \in DOMAIN defs}] :
        \A d \in DOMAIN defs : f[d] \in Perms(DOMAIN defs[d])}

PartialMaps(K, V, n) == UNION {[S -> V] : S \in {T \in SUBSET K : Cardinality(T) <= n}}

\* fetchOCIFeature: the digest of registry/repository:reference, "" when the fetch fails
fetchOCIFeature(registry, repository, reference, netOK) ==
    IF ~netOK \/ registry # <<114>> \/ reference # Str_latest THEN <<>>
    ELSE IF repository = Str_foo THEN Str_digestFoo
    ELSE IF repository = Str_bar THEN Str_digestBar
    ELSE <<>>

NoFeature ==
    [Source |-> "", Digest |-> <<>>, Values |-> NoOptions, UserValues |-> NoOptions,
     DependencyKey |-> "", BaseName |-> <<>>, Tag |-> <<>>, CanonicalName |-> <<>>,
     DependsOnKeys |-> <<>>]

\* fetchAndParse of an OCI reference (the registry of the model serves nothing else);
\* the metadata files it serves are well formed, and Metadata.DependsOn of the feature
\* with digest d is rcfg.DependsOn[d]
fetchAndParse(reference, options, netOK, names) ==
    LET digest == IF reference.Source = "oci"
                  THEN fetchOCIFeature(reference.Registry, reference.Repository,
                                       reference.Reference, netOK)
                  ELSE <<>>
    IN  IF digest = <<>> THEN [err |-> "fetch", feature |-> NoFeature]
        ELSE LET baseName == ToLower(reference.Registry) \o <<47>> \o ToLower(reference.Repository)
                 resolvedOptions == resolveFeatureOptions(MetadataOptions[digest], options,
                                                          names[digest])
             IN  IF resolvedOptions.err # "none"
                 THEN [err |-> resolvedOptions.err, feature |-> NoFeature]
                 ELSE [err |-> "none",
                       feature |->
                         [Source |-> reference.Source,
                          Digest |-> digest,
                          Values |-> resolvedOptions.Values,
                          UserValues |-> resolvedOptions.UserValues,
                          DependencyKey |-> featureEqualityKey(reference.Source, digest,
                                                               resolvedOptions.Values),
                          BaseName |-> baseName,
                          Tag |-> reference.Reference,
                          CanonicalName |-> baseName \o Str_at \o digest,
                          DependsOnKeys |-> <<>>]]

(* ---- state of one resolveFeatures call ---- *)
ResolveIdle ==
    /\ rpc = "off"
    /\ rcfg = [Features |-> NoOptions, DependsOn |-> NoOptions]
    /\ rtodo = <<>>
    /\ rstack = <<>>
    /\ resolving = {}
    /\ resolved = NoOptions
    /\ resolverFeatures = <<>>
    /\ fetched = <<>>
    /\ rret = [kind |-> "none", Order |-> <<>>]

\* a call: the features of the configuration and the dependsOn maps of the served features
ResolveInit ==
    /\ rpc = "call"
    /\ \E feats \in PartialMaps(RequestIds, RequestOptions, MaxRequests) :
        \E deps \in [DOMAIN MetadataOptions -> PartialMaps(RequestIds, RequestOptions, MaxDepends)] :
            /\ Cardinality(DOMAIN deps[Str_digestFoo]) + Cardinality(DOMAIN deps[Str_digestBar])
                  <= MaxDepends
            /\ rcfg = [Features |-> feats, DependsOn |-> deps]
    /\ rtodo = <<>>
    /\ rstack = <<>>
    /\ resolving = {}
    /\ resolved = NoOptions
    /\ resolverFeatures = <<>>
    /\ fetched = <<>>
    /\ rret = [kind |-> "none", Order |-> <<>>]

Frame(id, options) ==
    [id |-> id, options |-> options, stage |-> "enter", reqKey |-> "", feature |-> 0,
     todo |-> {}]

Top == rstack[Len(rstack)]

\* an error return: every frame returns it, each deferred delete runs, resolveFeatures
\* returns nil and the error
ResolveFail(kind) ==
    /\ rpc' = "done"
    /\ rret' = [kind |-> kind, Order |-> <<>>]
    /\ rstack' = <<>>
    /\ resolving' = {}
    /\ UNCHANGED resolverFeatures

\* resolveRequest returns the feature p: the deferred delete runs and the caller, when it
\* is a resolveRequest, appends the key of p to its DependsOnKeys
ReturnFeature(p) ==
    /\ resolving' = resolving \ {Top.reqKey}
    /\ rstack' = SubSeq(rstack, 1, Len(rstack) - 1)
    /\ IF Len(rstack) = 1 THEN UNCHANGED resolverFeatures
       ELSE resolverFeatures' =
              [resolverFeatures EXCEPT ![rstack[Len(rstack) - 1].feature].DependsOnKeys =
                  Append(@, resolverFeatures[p].DependencyKey)]
    /\ UNCHANGED <<rpc, rret>>

\* fetchAndParse of every request of the model, evaluated once
FetchOutcomes ==
    [id \in RequestIds, options \in RequestOptions, netOK \in BOOLEAN |->
        {fetchAndParse(References[id], options, netOK, names) :
            names \in IterationOrders(MetadataOptions)}]

\* mutant: the resolve stack is never consulted
onResolveStackNever(reqKey) == FALSE

\* r.resolving[reqKey]
onResolveStack(reqKey) == reqKey \in resolving

\* entry of resolveFeatures
ResolveFeatures ==
    /\ rpc = "call"
    /\ IF DOMAIN rcfg.Features = {}
       THEN /\ rpc' = "done"
            /\ rret' = [kind |-> "nil", Order |-> <<>>]
            /\ UNCHANGED rtodo
       ELSE /\ rpc' = "loop"
            /\ rtodo' = SortStrings(DOMAIN rcfg.Features)
            /\ UNCHANGED rret
    /\ UNCHANGED <<rcfg, rstack, resolving, resolved, resolverFeatures, fetched, outsideResolve>>

\* the loop over the sorted ids calls resolveRequest
ResolveTopLevel ==
    /\ rpc = "loop" /\ rstack = <<>> /\ rtodo # <<>>
    /\ rstack' = <<Frame(Head(rtodo), rcfg.Features[Head(rtodo)])>>
    /\ rtodo' = Tail(rtodo)
    /\ UNCHANGED <<rpc, rcfg, resolving, resolved, resolverFeatures, fetched, rret,
                   outsideResolve>>

\* resolveRequest up to the fetch: parse, request key, cycle check, lookup in r.resolved
ResolveRequestEnter ==
    /\ rpc = "loop" /\ rstack # <<>> /\ Top.stage = "enter"
    /\ \E reference \in {References[Top.id]} :
        \E req \in {RequestKeys[Top.id, Top.options]} :
           IF ~reference.ok THEN ResolveFail("reference")
           ELSE IF req.err THEN ResolveFail("missingValue")
           ELSE IF onResolveStack(req.key) THEN ResolveFail("cycle")
           ELSE IF req.key \in DOMAIN resolved THEN ReturnFeature(resolved[req.key])
           ELSE /\ resolving' = resolving \cup {req.key}
                /\ rstack' = [rstack EXCEPT ![Len(rstack)].stage = "fetch",
                                            ![Len(rstack)].reqKey = req.key]
                /\ UNCHANGED <<rpc, rret, resolverFeatures>>
    /\ UNCHANGED <<rcfg, rtodo, resolved, fetched, outsideResolve>>

\* fetchAndParse and what resolveRequest does with its result: an error, the feature
\* already stored under the dependency key, or a new entry of r.resolved and r.features
FetchAndParse ==
    /\ rpc = "loop" /\ rstack # <<>> /\ Top.stage = "fetch"
    /\ \E netOK \in BOOLEAN :
            \E got \in FetchOutcomes[Top.id, Top.options, netOK] :
                /\ fetched' = IF netOK THEN Append(fetched, Top.reqKey) ELSE fetched
                /\ IF got.err # "none"
                   THEN ResolveFail(got.err) /\ UNCHANGED resolved
                   ELSE IF got.feature.DependencyKey \in DOMAIN resolved
                   THEN ReturnFeature(resolved[got.feature.DependencyKey])
                        /\ UNCHANGED resolved
                   ELSE /\ resolved' = (got.feature.DependencyKey :> Len(resolverFeatures) + 1)
                                          @@ resolved
                        /\ resolverFeatures' = Append(resolverFeatures, got.feature)
                        /\ rstack' = [rstack EXCEPT
                                        ![Len(rstack)].stage = "deps",
                                        ![Len(rstack)].feature = Len(resolverFeatures) + 1,
                                        ![Len(rstack)].todo =
                                            DOMAIN rcfg.DependsOn[got.feature.Digest]]
                        /\ UNCHANGED <<rpc, rret, resolving>>
    /\ UNCHANGED <<rcfg, rtodo, outsideResolve>>

\* one pass of the range over Metadata.DependsOn: the map's iteration order is any
ResolveDependency ==
    /\ rpc = "loop" /\ rstack # <<>> /\ Top.stage = "deps"
    /\ \E depID \in Top.todo :
        rstack' = Append([rstack EXCEPT ![Len(rstack)].todo = @ \ {depID}],
                         Frame(depID, rcfg.DependsOn[resolverFeatures[Top.feature].Digest][depID]))
    /\ UNCHANGED <<rpc, rcfg, rtodo, resolving, resolved, resolverFeatures, fetched, rret,
                   outsideResolve>>

\* the range is over: resolveRequest returns the feature it stored
ResolveRequestReturn ==
    /\ rpc = "loop" /\ rstack # <<>> /\ Top.stage = "deps" /\ Top.todo = {}
    /\ ReturnFeature(Top.feature)
    /\ UNCHANGED <<rcfg, rtodo, resolved, fetched, outsideResolve>>

\* every id is resolved: orderFeatures(resolver.features, cfg.OverrideFeatureInstallOrder)
CallOrderFeatures ==
    /\ rpc = "loop" /\ rstack = <<>> /\ rtodo = <<>>
    /\ rpc' = "order"
    /\ inFeatures' = [i \in DOMAIN resolverFeatures |->
                        [DependencyKey |-> resolverFeatures[i].DependencyKey,
                         BaseName |-> resolverFeatures[i].BaseName,
                         Tag |-> resolverFeatures[i].Tag,
                         UserValues |-> resolverFeatures[i].UserValues,
                         CanonicalName |-> resolverFeatures[i].CanonicalName,
                         DependsOnKeys |-> Range(resolverFeatures[i].DependsOnKeys),
                         InstallsAfterIDs |-> {},
                         InstallsAfterKeys |-> {}]]
    /\ inOverride' = <<>>
    /\ opc' = "call"
    /\ remaining' = {}
    /\ order' = <<>>
    /\ orderRet' = [kind |-> "none"]
    /\ UNCHANGED <<rcfg, rtodo, rstack, resolving, resolved, resolverFeatures, fetched, rret,
                   startVars, callVars>>

\* orderFeatures returned: its error, or the plan
ResolveFeaturesReturn ==
    /\ rpc = "order" /\ opc = "done"
    /\ rpc' = "done"
    /\ rret' = IF orderRet.kind = "ok" THEN [kind |-> "ok", Order |-> order]
               ELSE [kind |-> orderRet.kind, Order |-> <<>>]
    /\ UNCHANGED <<rcfg, rtodo, rstack, resolving, resolved, resolverFeatures, fetched,
                   outsideResolve>>

ResolveNext ==
    \/ ResolveFeatures
    \/ ResolveTopLevel
    \/ ResolveRequestEnter
    \/ FetchAndParse
    \/ ResolveDependency
    \/ ResolveRequestReturn
    \/ CallOrderFeatures
    \/ ResolveFeaturesReturn
    \/ OrderStart
    \/ OrderRound
    \/ OrderCycle
    \/ OrderReturn

(***************************************************************************)
(* One call of resolveFeatureOptions                                       *)
(***************************************************************************)
\* what a feature may declare for an option: any type string, any default (ZeroOption
\* when the metadata gives none)
OptionDefinitions ==
    [Type : {"", "string", "boolean", "number"},
     Default : {StringOption(Str_1), BoolOption(TRUE), ZeroOption}]

\* the values a devcontainer.json can give an option (UnmarshalJSON rejects null)
UserOptionValues == {StringOption(Str_2), BoolOption(FALSE)}

Pending == [done |-> FALSE, value |-> <<>>]
Returned(v) == [done |-> TRUE, value |-> v]

\* a call: the declared options, the user's options, the iteration order of the range
OptionsInit ==
    /\ callee = "resolveFeatureOptions"
    /\ \E defs \in PartialMaps({Str_version, Str_debug}, OptionDefinitions, MaxOptionDefs) :
        \E user \in PartialMaps({Str_version, Str_debug, Str_color}, UserOptionValues,
                                MaxUserOptions) :
            \E names \in Perms(DOMAIN defs) :
                callArgs = [defs |-> defs, user |-> user, names |-> names]
    /\ callResult = Pending
    /\ frame = <<>> /\ world = <<>>

CallResolveFeatureOptions ==
    /\ callee = "resolveFeatureOptions" /\ ~callResult.done
    /\ callResult' = Returned(resolveFeatureOptions(callArgs.defs, callArgs.user, callArgs.names))
    /\ UNCHANGED <<callee, callArgs, frame, world, outsideCall>>

(***************************************************************************)
(* MergeConfig and validateConfig, one call each                           *)
(*                                                                         *)
(* A configuration is modelled with one field of each kind MergeConfig     *)
(* treats alike: strings (Name, Image, Service), string slices             *)
(* (DockerComposeFile, RunArgs), a string map (ContainerEnv), the plain    *)
(* boolean Privileged, the nullable booleans Init and OverrideCommand, the *)
(* Build pointer, Features and a lifecycle command (PostCreateCommand).    *)
(* A slice or map is nil or holds its elements (possibly none); a string   *)
(* map also names the storage it lives in: the base argument, the overlay  *)
(* argument, or storage allocated by the call.                             *)
(***************************************************************************)
NilSlice == [nil |-> TRUE, elems |-> <<>>]
MakeSlice(elems) == [nil |-> FALSE, elems |-> elems]

NilMap == [nil |-> TRUE, m |-> <<>>, ref |-> "new"]
MakeMap(m) == [nil |-> FALSE, m |-> m, ref |-> "new"]
MapLen(x) == Cardinality(DOMAIN x.m)

NilBool == [nil |-> TRUE, v |-> FALSE]
BoolPtr(v) == [nil |-> FALSE, v |-> v]

NilFeatureOptions == [nil |-> TRUE, m |-> <<>>]
NilFeatures == [nil |-> TRUE, m |-> <<>>]

NilBuild ==
    [nil |-> TRUE, Dockerfile |-> "", Args |-> NilMap, CacheFrom |-> NilSlice]

ZeroConfig ==
    [nil |-> FALSE, Name |-> "", Image |-> "", Build |-> NilBuild,
     DockerComposeFile |-> NilSlice, Service |-> "", RunArgs |-> NilSlice,
     ContainerEnv |-> NilMap, Privileged |-> FALSE, Init |-> NilBool,
     OverrideCommand |-> NilBool, Features |-> NilFeatures, PostCreateCommand |-> NilLC]

\* a nil *DevcontainerConfig
NilConfig == [ZeroConfig EXCEPT !.nil = TRUE]

(* ---- clone helpers ---- *)
cloneStringSlice(values) == IF Len(values.elems) = 0 THEN NilSlice ELSE MakeSlice(values.elems)

cloneStrings(values) == IF Len(values.elems) = 0 THEN NilSlice ELSE MakeSlice(values.elems)

cloneStringMap(values) == IF MapLen(values) = 0 THEN NilMap ELSE MakeMap(values.m)

cloneBoolPtr(value) == IF value.nil THEN NilBool ELSE BoolPtr(value.v)

cloneFeatureOptionValue(value) ==
    IF value.kind = "string" THEN StringOption(value.s)
    ELSE IF value.kind = "bool" THEN BoolOption(value.b)
    ELSE ZeroOption

cloneFeatureOptions(options) ==
    IF MapLen(options) = 0 THEN NilFeatureOptions
    ELSE [nil |-> FALSE,
          m |-> [key \in DOMAIN options.m |-> cloneFeatureOptionValue(options.m[key])]]

cloneFeatureSet(features) ==
    IF MapLen(features) = 0 THEN NilFeatures
    ELSE [nil |-> FALSE,
          m |-> [key \in DOMAIN features.m |-> cloneFeatureOptions(features.m[key])]]

cloneLifecycleCommands(commands) ==
    IF commands.nil THEN NilLC
    ELSE [nil |-> FALSE, single |-> commands.single, parallel |-> commands.parallel]

cloneBuild(b) ==
    IF b.nil THEN NilBuild
    ELSE [b EXCEPT !.Args = cloneStringMap(b.Args),
                   !.CacheFrom = cloneStringSlice(b.CacheFrom)]

cloneConfig(c) ==
    IF c.nil THEN NilConfig
    ELSE [c EXCEPT !.Build = cloneBuild(c.Build),
                   !.DockerComposeFile = cloneStringSlice(c.DockerComposeFile),
                   !.RunArgs = cloneStrings(c.RunArgs),
                   !.ContainerEnv = cloneStringMap(c.ContainerEnv),
                   !.Features = cloneFeatureSet(c.Features),
                   !.Init = cloneBoolPtr(c.Init),
                   !.OverrideCommand = cloneBoolPtr(c.OverrideCommand),
                   !.PostCreateCommand = cloneLifecycleCommands(c.PostCreateCommand)]

(* ---- merge helpers ---- *)
\* append(a, b...): a itself when b has no element
AppendSlice(a, b) == IF Len(b.elems) = 0 THEN a ELSE MakeSlice(a.elems \o b.elems)

\* the merged map, and the storage the range over overlay wrote into ("" when none)
mergeStringMap(base, overlay) ==
    IF MapLen(base) = 0 /\ MapLen(overlay) = 0 THEN [val |-> NilMap, wrote |-> ""]
    ELSE LET clone == cloneStringMap(base)
             merged == IF clone.nil THEN MakeMap(<<>>) ELSE clone
         IN  [val |-> [merged EXCEPT !.m = [key \in DOMAIN overlay.m \cup DOMAIN merged.m |->
                                              IF key \in DOMAIN overlay.m THEN overlay.m[key]
                                              ELSE merged.m[key]]],
              wrote |-> IF MapLen(overlay) > 0 THEN merged.ref ELSE ""]

mergeInit(base, overlay) ==
    IF base.nil /\ overlay.nil THEN NilBool
    ELSE BoolPtr((~base.nil /\ base.v) \/ (~overlay.nil /\ overlay.v))

mergeFeatureOptions(base, overlay) ==
    IF MapLen(base) = 0 /\ MapLen(overlay) = 0 THEN NilFeatureOptions
    ELSE LET merged == cloneFeatureOptions(base)
         IN  [nil |-> FALSE,
              m |-> [key \in DOMAIN overlay.m \cup DOMAIN merged.m |->
                        IF key \in DOMAIN overlay.m THEN cloneFeatureOptionValue(overlay.m[key])
                        ELSE merged.m[key]]]

mergeFeatureSet(base, overlay) ==
    IF MapLen(base) = 0 /\ MapLen(overlay) = 0 THEN NilFeatures
    ELSE [nil |-> FALSE,
          m |-> [key \in DOMAIN base.m \cup DOMAIN overlay.m |->
                    IF key \in DOMAIN base.m /\ key \in DOMAIN overlay.m
                    THEN mergeFeatureOptions(cloneFeatureOptions(base.m[key]), overlay.m[key])
                    ELSE IF key \in DOMAIN base.m THEN cloneFeatureOptions(base.m[key])
                    ELSE cloneFeatureOptions(overlay.m[key])]]

\* the merged build, and the storage the merge of Args wrote into
mergeBuild(base, overlay) ==
    IF base.nil /\ overlay.nil THEN [val |-> NilBuild, wrote |-> ""]
    ELSE IF base.nil THEN [val |-> cloneBuild(overlay), wrote |-> ""]
    ELSE IF overlay.nil THEN [val |-> cloneBuild(base), wrote |-> ""]
    ELSE LET merged == cloneBuild(base)
             args == mergeStringMap(merged.Args, overlay.Args)
         IN  [val |-> [merged EXCEPT
                         !.Dockerfile = IF overlay.Dockerfile # "" THEN overlay.Dockerfile ELSE @,
                         !.Args = args.val,
                         !.CacheFrom = AppendSlice(@, overlay.CacheFrom)],
              wrote |-> args.wrote]

\* the merged configuration, and the storage the merges of ContainerEnv and Build.Args
\* wrote into
MergeConfig(base, overlay) ==
    IF base.nil /\ overlay.nil THEN [val |-> ZeroConfig, wroteEnv |-> "", wroteArgs |-> ""]
    ELSE IF base.nil THEN [val |-> cloneConfig(overlay), wroteEnv |-> "", wroteArgs |-> ""]
    ELSE IF overlay.nil THEN [val |-> cloneConfig(base), wroteEnv |-> "", wroteArgs |-> ""]
    ELSE LET merged == cloneConfig(base)
             build == mergeBuild(merged.Build, overlay.Build)
             env == mergeStringMap(merged.ContainerEnv, overlay.ContainerEnv)
         IN  [val |->
                [merged EXCEPT
                   !.Name = IF overlay.Name # "" THEN overlay.Name ELSE @,
                   !.Image = IF overlay.Image # "" THEN overlay.Image ELSE @,
                   !.Build = build.val,
                   !.DockerComposeFile = AppendSlice(@, overlay.DockerComposeFile),
                   !.Service = IF overlay.Service # "" THEN overlay.Service ELSE @,
                   !.ContainerEnv = env.val,
                   !.RunArgs = AppendSlice(@, overlay.RunArgs),
                   !.Privileged = @ \/ overlay.Privileged,
                   !.Init = mergeInit(@, overlay.Init),
                   !.Features = mergeFeatureSet(@, overlay.Features),
                   !.OverrideCommand = IF ~overlay.OverrideCommand.nil
                                       THEN cloneBoolPtr(overlay.OverrideCommand) ELSE @,
                   !.PostCreateCommand = IF ~overlay.PostCreateCommand.nil
                                         THEN cloneLifecycleCommands(overlay.PostCreateCommand)
                                         ELSE @],
              wroteEnv |-> env.wrote,
              wroteArgs |-> build.wrote]

(* ---- validateConfig ---- *)
isComposeConfig(c) == Len(c.DockerComposeFile.elems) > 0 \/ c.Service # ""

\* the error validateConfig returns, "" for nil
validateConfig(c) ==
    IF isComposeConfig(c)
    THEN IF Len(c.DockerComposeFile.elems) = 0 THEN "dockerComposeFile is required"
         ELSE IF c.Service = "" THEN "service is required"
         ELSE IF c.Image # "" \/ ~c.Build.nil THEN "cannot be combined with image or build"
         ELSE ""
    ELSE IF c.Image = "" /\ c.Build.nil THEN "must specify image or build"
    ELSE ""

(* ---- the configurations of the model ---- *)
BuildValues ==
    {NilBuild,
     [nil |-> FALSE, Dockerfile |-> "Dockerfile", Args |-> NilMap, CacheFrom |-> NilSlice],
     [nil |-> FALSE, Dockerfile |-> "", Args |-> MakeMap("A" :> "1"),
      CacheFrom |-> MakeSlice(<<>>)]}

SliceValues == {NilSlice, MakeSlice(<<>>), MakeSlice(<<"x">>)}

MapValues == {NilMap, MakeMap(<<>>), MakeMap("A" :> "1"), MakeMap(("A" :> "2") @@ ("B" :> "3"))}

BoolPtrValues == {NilBool, BoolPtr(TRUE), BoolPtr(FALSE)}

FeaturesValues ==
    {NilFeatures,
     [nil |-> FALSE, m |-> <<>>],
     [nil |-> FALSE, m |-> ("r/foo" :> [nil |-> FALSE, m |-> <<>>])],
     [nil |-> FALSE, m |-> ("r/foo" :> [nil |-> FALSE, m |-> ("version" :> StringOption(Str_1))])],
     [nil |-> FALSE, m |-> ("r/foo" :> [nil |-> FALSE, m |-> ("version" :> StringOption(Str_2))])]}

\* a field of a configuration and a value it may hold
FieldValues ==
    ({"Name"} \X {"", "n"}) \cup ({"Image"} \X {"", "img"}) \cup ({"Build"} \X BuildValues)
    \cup ({"DockerComposeFile"} \X SliceValues) \cup ({"Service"} \X {"", "svc"})
    \cup ({"RunArgs"} \X SliceValues) \cup ({"ContainerEnv"} \X MapValues)
    \cup ({"Privileged"} \X BOOLEAN) \cup ({"Init"} \X BoolPtrValues)
    \cup ({"OverrideCommand"} \X BoolPtrValues) \cup ({"Features"} \X FeaturesValues)
    \cup ({"PostCreateCommand"} \X {NilLC, SingleLC})

\* the configurations that set at most n fields
RECURSIVE ConfigsSetting(_)
ConfigsSetting(n) ==
    IF n = 0 THEN {ZeroConfig}
    ELSE {[c EXCEPT ![fv[1]] = fv[2]] : c \in ConfigsSetting(n - 1), fv \in FieldValues}

\* the configurations of the model, and the nil configuration
Configs == ConfigsSetting(MaxSetFields) \cup {NilConfig}

\* every combination of image, build, dockerComposeFile and service
ValidateInputs ==
    {[ZeroConfig EXCEPT !.Image = v[1], !.Build = v[2], !.DockerComposeFile = v[3],
                        !.Service = v[4]] :
        v \in {"", "img"} \X BuildValues \X SliceValues \X {"", "svc"}}

\* the string maps of an argument live in the argument's storage
Owned(c, who) == [c EXCEPT !.ContainerEnv.ref = who, !.Build.Args.ref = who]

\* a configuration without the names of its storage: what a deep comparison sees
Plain(c) == Owned(c, "")

\* the argument after the call: a map of the argument that the call wrote into holds what
\* the merged map holds
After(c, who, res) ==
    [c EXCEPT !.ContainerEnv.m = IF res.wroteEnv = who THEN res.val.ContainerEnv.m ELSE @,
              !.Build.Args.m = IF res.wroteArgs = who THEN res.val.Build.Args.m ELSE @]

ConfigInit ==
    /\ \/ /\ callee = "MergeConfig"
          /\ \E base \in Configs : \E overlay \in Configs :
               callArgs = [base |-> Owned(base, "base"),
                           overlay |-> Owned(overlay, "overlay")]
       \/ /\ callee = "validateConfig"
          /\ \E c \in ValidateInputs : callArgs = [config |-> c]
    /\ callResult = Pending
    /\ frame = <<>> /\ world = <<>>

CallMergeConfig ==
    /\ callee = "MergeConfig" /\ ~callResult.done
    /\ \E res \in {MergeConfig(callArgs.base, callArgs.overlay)} :
        /\ callResult' = Returned(res.val)
        /\ callArgs' = [base |-> After(callArgs.base, "base", res),
                        overlay |-> After(callArgs.overlay, "overlay", res)]
    /\ UNCHANGED <<callee, frame, world, outsideCall>>

CallValidateConfig ==
    /\ callee = "validateConfig" /\ ~callResult.done
    /\ callResult' = Returned(validateConfig(callArgs.config))
    /\ UNCHANGED <<callee, callArgs, frame, world, outsideCall>>

ConfigNext ==
    \/ CallMergeConfig
    \/ CallValidateConfig

(***************************************************************************)
(* StopDevcontainer and RemoveDevcontainer                                 *)
(***************************************************************************)
ContainerIds == {"c1", "c2", "c3"}
ConfigPaths == {"/a/devcontainer.json", "/b/devcontainer.json"}
NoLabel == ""

\* what LoadConfig and the compose path resolution make of the file a label names
FileKinds == {"compose", "single", "unreadable", "composeNoFiles"}

\* resolveComposeProjectName for the compose configuration at a path
resolveComposeProjectName(path) == IF path = "/a/devcontainer.json" THEN "a" ELSE "b"
ComposeProjects == {resolveComposeProjectName(p) : p \in ConfigPaths}

NoTarget == [ok |-> FALSE, err |-> FALSE, projectName |-> ""]

\* mutant: no container is taken for a compose devcontainer
composeTargetFromContainerNever(inspectOK, labels, files) ==
    IF ~inspectOK THEN [NoTarget EXCEPT !.err = TRUE] ELSE NoTarget

\* the compose project of a container, from its devcontainer.config_path label and the
\* configuration file the label names
composeTargetFromContainer(inspectOK, labels, files) ==
    IF ~inspectOK THEN [NoTarget EXCEPT !.err = TRUE]
    ELSE IF labels = NoLabel THEN NoTarget
    ELSE IF files[labels] = "unreadable" THEN NoTarget
    ELSE IF files[labels] = "single" THEN NoTarget
    ELSE IF files[labels] = "composeNoFiles" THEN [NoTarget EXCEPT !.err = TRUE]
    ELSE [ok |-> TRUE, err |-> FALSE, projectName |-> resolveComposeProjectName(labels)]

\* the containers of the engine: the config path label, the compose project the container
\* is a service of, and whether it runs, is stopped or is gone with its volumes
ContainerChoices ==
    [label : ConfigPaths \cup {NoLabel}, project : ComposeProjects \cup {""}]

StopInit ==
    /\ callee \in {"StopDevcontainer", "RemoveDevcontainer"}
    /\ \E id \in ContainerIds, timeout \in {0, 10} :
        /\ callee = "RemoveDevcontainer" => timeout = 0
        /\ callArgs = [containerID |-> id, timeout |-> timeout]
    /\ callResult = Pending
    /\ frame = [pc |-> "newDockerClient", cli |-> "none", target |-> NoTarget]
    /\ \E cs \in [ContainerIds -> ContainerChoices], files \in [ConfigPaths -> FileKinds] :
        world = [containers |-> [c \in ContainerIds |->
                                   [label |-> cs[c].label, project |-> cs[c].project,
                                    state |-> "running", volumes |-> TRUE]],
                 files |-> files,
                 commands |-> <<>>]

\* the call returns; the deferred cli.Close has run
StopReturn(err) ==
    /\ callResult' = Returned(err)
    /\ frame' = [frame EXCEPT !.pc = "done",
                              !.cli = IF frame.cli = "open" THEN "closed" ELSE @]

NewDockerClient ==
    /\ callee \in {"StopDevcontainer", "RemoveDevcontainer"}
    /\ frame.pc = "newDockerClient"
    /\ \E ok \in BOOLEAN :
        IF ok
        THEN /\ frame' = [frame EXCEPT !.pc = "composeTarget", !.cli = "open"]
             /\ UNCHANGED callResult
        ELSE StopReturn("newDockerClient")
    /\ UNCHANGED <<callee, callArgs, world, outsideCall>>

ComposeTargetFromContainer ==
    /\ frame.pc = "composeTarget"
    /\ \E inspectOK \in BOOLEAN :
        \E target \in {composeTargetFromContainer(
                           inspectOK, world.containers[callArgs.containerID].label,
                           world.files)} :
            IF target.err
            THEN StopReturn("composeTarget")
            ELSE /\ frame' = [frame EXCEPT !.pc = IF target.ok THEN "compose" ELSE "container",
                                           !.target = target]
                 /\ UNCHANGED callResult
    /\ UNCHANGED <<callee, callArgs, world, outsideCall>>

\* docker compose -p <project> stop: every service container of the project stops
composeStop(w, projectName, timeout) ==
    [w EXCEPT !.containers = [c \in ContainerIds |->
                                IF w.containers[c].project = projectName
                                   /\ w.containers[c].state = "running"
                                THEN [w.containers[c] EXCEPT !.state = "stopped"]
                                ELSE w.containers[c]],
              !.commands = Append(@, <<"compose", projectName, "stop", timeout>>)]

\* docker compose -p <project> down --volumes --remove-orphans
composeDown(w, projectName) ==
    [w EXCEPT !.containers = [c \in ContainerIds |->
                                IF w.containers[c].project = projectName
                                THEN [w.containers[c] EXCEPT !.state = "removed",
                                                             !.volumes = FALSE]
                                ELSE w.containers[c]],
              !.commands = Append(@, <<"compose", projectName, "down", 0>>)]

\* cli.ContainerStop
stopContainer(w, id, timeout) ==
    [w EXCEPT !.containers[id].state = IF @ = "running" THEN "stopped" ELSE @,
              !.commands = Append(@, <<"engine", id, "stop", timeout>>)]

\* cli.ContainerRemove with Force and RemoveVolumes
removeContainer(w, id) ==
    [w EXCEPT !.containers[id].state = "removed", !.containers[id].volumes = FALSE,
              !.commands = Append(@, <<"engine", id, "remove", 0>>)]

\* the compose branch of StopDevcontainer and RemoveDevcontainer
ComposeStopOrDown ==
    /\ frame.pc = "compose"
    /\ \E ok \in BOOLEAN :
        IF ok
        THEN /\ world' = IF callee = "StopDevcontainer"
                         THEN composeStop(world, frame.target.projectName, callArgs.timeout)
                         ELSE composeDown(world, frame.target.projectName)
             /\ StopReturn("")
        ELSE /\ UNCHANGED world
             /\ StopReturn("compose")
    /\ UNCHANGED <<callee, callArgs, outsideCall>>

\* the single-container branch
StopOrRemoveContainer ==
    /\ frame.pc = "container"
    /\ \E ok \in BOOLEAN :
        IF ok
        THEN /\ world' = IF callee = "StopDevcontainer"
                         THEN stopContainer(world, callArgs.containerID, callArgs.timeout)
                         ELSE removeContainer(world, callArgs.containerID)
             /\ StopReturn("")
        ELSE /\ UNCHANGED world
             /\ StopReturn("engine")
    /\ UNCHANGED <<callee, callArgs, outsideCall>>

StopNext ==
    \/ NewDockerClient
    \/ ComposeTargetFromContainer
    \/ ComposeStopOrDown
    \/ StopOrRemoveContainer

(***************************************************************************)
(* File paths: a path is the sequence of its elements, "/" first when it   *)
(* is absolute; the empty sequence is the empty string                     *)
(***************************************************************************)
IsAbs(p) == p # <<>> /\ p[1] = "/"

\* filepath.Clean on the elements after the root: "." and empty elements go, ".." takes
\* the element before it, stays at the front of a relative path and goes at the root
RECURSIVE CleanElems(_, _, _)
CleanElems(elems, acc, abs) ==
    IF elems = <<>> THEN acc
    ELSE LET e == Head(elems)
             rest == Tail(elems)
         IN  IF e = "." \/ e = "" \/ e = "/" THEN CleanElems(rest, acc, abs)
             ELSE IF e = ".."
             THEN IF acc # <<>> /\ acc[Len(acc)] # ".."
                  THEN CleanElems(rest, SubSeq(acc, 1, Len(acc) - 1), abs)
                  ELSE IF abs THEN CleanElems(rest, acc, abs)
                  ELSE CleanElems(rest, Append(acc, ".."), abs)
             ELSE CleanElems(rest, Append(acc, e), abs)

\* filepath.Clean; "." is the path of one element "."
Clean(p) ==
    IF IsAbs(p) THEN <<"/">> \o CleanElems(Tail(p), <<>>, TRUE)
    ELSE LET c == CleanElems(p, <<>>, FALSE) IN IF c = <<>> THEN <<".">> ELSE c

\* filepath.Join: the elements one after the other, cleaned; "" when all are empty
Join(a, b) == IF a = <<>> /\ b = <<>> THEN <<>> ELSE Clean(IF a = <<>> THEN b ELSE a \o b)

\* filepath.Abs in the working directory cwd
Abs(cwd, p) == IF IsAbs(p) THEN Clean(p) ELSE Join(cwd, p)

(***************************************************************************)
(* The labels of the container a start call creates                        *)
(***************************************************************************)
ConfigPathLabel == "devcontainer.config_path"

\* values a label given by the user may have
UserLabelValues == {<<"x">>, <<"/", "other", "devcontainer.json">>}
UserLabels == PartialMaps({ConfigPathLabel, "team"}, UserLabelValues, 2)

\* FindConfigPath: the first candidate under baseDir that is a file
FindConfigPath(baseDir, files) ==
    LET candidates == <<Join(baseDir, <<".devcontainer", "devcontainer.json">>),
                        Join(baseDir, <<"devcontainer.json">>)>>
        hits == {i \in DOMAIN candidates : candidates[i] \in files}
    IN  IF hits = {} THEN [err |-> TRUE, path |-> <<>>]
        ELSE [err |-> FALSE, path |-> candidates[CHOOSE i \in hits : \A j \in hits : i <= j]]

resolveConfigPath(path, cwd, files) ==
    IF path # <<>> THEN [err |-> FALSE, path |-> Abs(cwd, path)]
    ELSE FindConfigPath(cwd, files)

mergeLabels(base, overlay) ==
    [k \in DOMAIN base \cup DOMAIN overlay |-> IF k \in DOMAIN overlay THEN overlay[k] ELSE base[k]]

\* mutant: the config path label is set before the user's labels are merged in
containerLabelsUserLast(userLabels, runArgLabels, configPath) ==
    mergeLabels((ConfigPathLabel :> configPath), mergeLabels(userLabels, runArgLabels))

\* labels := mergeLabels(options.Labels, runArgOptions.Labels), then the config path label
containerLabels(userLabels, runArgLabels, configPath) ==
    LET labels == mergeLabels(userLabels, runArgLabels)
    IN  [k \in DOMAIN labels \cup {ConfigPathLabel} |->
            IF k = ConfigPathLabel THEN configPath ELSE labels[k]]

WorkingDirs == {<<"/">>, <<"/", "home", "w">>}
ConfigPathOptions ==
    {<<>>, <<"devcontainer.json">>, <<"..", "p", ".", "devcontainer.json">>,
     <<"/", "w", "..", "q", "devcontainer.json">>}

LabelsInit ==
    /\ callee = "StartDevcontainer"
    /\ \E compose \in BOOLEAN, path \in ConfigPathOptions, labels \in UserLabels,
          other \in UserLabels :
        callArgs = [ConfigPath |-> path, Labels |-> labels, compose |-> compose,
                    \* --label in runArgs (single container)
                    runArgLabels |-> IF compose THEN <<>> ELSE other,
                    \* the labels of the service in the compose files
                    serviceLabels |-> IF compose THEN other ELSE <<>>]
    /\ callResult = Pending
    /\ frame = [pc |-> "resolveConfigPath", configPath |-> <<>>, labels |-> <<>>]
    /\ \E cwd \in WorkingDirs :
        \E files \in SUBSET {Join(cwd, <<".devcontainer", "devcontainer.json">>),
                             Join(cwd, <<"devcontainer.json">>)} :
            world = [cwd |-> cwd, files |-> files, containers |-> {}]

LabelsReturn(id, err) ==
    /\ callResult' = Returned([id |-> id, err |-> err])
    /\ frame' = [frame EXCEPT !.pc = "done"]

\* resolveConfigPath, LoadConfig, validateConfig
ResolveConfigPath ==
    /\ callee = "StartDevcontainer" /\ frame.pc = "resolveConfigPath"
    /\ \E r \in {resolveConfigPath(callArgs.ConfigPath, world.cwd, world.files)},
          loadOK \in BOOLEAN :
        IF r.err \/ ~loadOK
        THEN LabelsReturn("", "config")
        ELSE /\ frame' = [frame EXCEPT !.pc = "labels", !.configPath = r.path]
             /\ UNCHANGED callResult
    /\ UNCHANGED <<callee, callArgs, world, outsideCall>>

\* everything between the config and the labels, then the labels
BuildLabels ==
    /\ callee = "StartDevcontainer" /\ frame.pc = "labels"
    /\ \E ok \in BOOLEAN :
        IF ok
        THEN /\ frame' = [frame EXCEPT
                    !.pc = "create",
                    !.labels = containerLabels(callArgs.Labels, callArgs.runArgLabels,
                                               frame.configPath)]
             /\ UNCHANGED callResult
        ELSE LabelsReturn("", "start")
    /\ UNCHANGED <<callee, callArgs, world, outsideCall>>

\* ContainerCreate with the labels; in compose mode the override file, the last -f of
\* compose up, gives the labels to the primary service on top of the service's own
CreateWithLabels ==
    /\ callee = "StartDevcontainer" /\ frame.pc = "create"
    /\ \E ok \in BOOLEAN :
        IF ok
        THEN /\ world' = [world EXCEPT !.containers =
                    {[id |-> "c1",
                      labels |-> IF callArgs.compose
                                 THEN mergeLabels(callArgs.serviceLabels, frame.labels)
                                 ELSE frame.labels]}]
             /\ LabelsReturn("c1", "")
        ELSE /\ UNCHANGED world
             /\ LabelsReturn("", "engine")
    /\ UNCHANGED <<callee, callArgs, outsideCall>>

LabelsNext ==
    \/ ResolveConfigPath
    \/ BuildLabels
    \/ CreateWithLabels

(***************************************************************************)
(* Temporary resources of StartDevcontainer and BuildImageFromDevcontainer *)
(***************************************************************************)
\* the extraction directory of the i-th feature fetched from a registry
FeatureTempDir(i) == <<"godev2-feature", i>>
ContextDir == <<"godev-features-build", 0>>
BuildPipe == <<"pipe", 1>>
FeaturesPipe == <<"pipe", 2>>
ResponseBody(i) == <<"response body", i>>
EngineClient == <<"engine client", 0>>
OverrideFile == <<"godev-compose-override", 0>>

\* a function body that acquires resources, defers releases and stops at a step:
\* what it acquired, and what its deferred calls release when it returns
Outcome(err, acquired, deferred) == [err |-> err, acquired |-> acquired, deferred |-> deferred]

\* extractFeatureArchive for the i-th feature, stopping at a step or running to the end
extractFeatureArchive(i, stop) ==
    IF stop = "MkdirTemp" THEN Outcome(TRUE, {}, {})
    ELSE IF stop \in {"tarReader.Next", "safeExtractPath", "write", "findFeatureRoot"}
    THEN Outcome(TRUE, {FeatureTempDir(i)}, {})
    ELSE Outcome(FALSE, {FeatureTempDir(i)}, {})

ExtractStops == {"MkdirTemp", "tarReader.Next", "safeExtractPath", "write", "findFeatureRoot", "end"}

\* buildImage: the tar pipe of the build context and the response body
buildImage(stop) ==
    IF stop = "resolveBuildPaths" THEN Outcome(TRUE, {}, {})
    ELSE IF stop = "ImageBuild" THEN Outcome(TRUE, {BuildPipe}, {BuildPipe})
    ELSE Outcome(stop = "io.Copy", {BuildPipe, ResponseBody(1)}, {BuildPipe, ResponseBody(1)})

BuildImageStops == {"resolveBuildPaths", "ImageBuild", "io.Copy", "end"}

\* buildFeaturesImage
buildFeaturesImage(nFeatures, stop) ==
    IF nFeatures = 0 THEN Outcome(FALSE, {}, {})
    ELSE IF stop = "MkdirTemp" THEN Outcome(TRUE, {}, {})
    ELSE IF stop \in {"MkdirAll", "copyDir", "featureEntrypointPath", "WriteFile"}
    THEN Outcome(TRUE, {ContextDir}, {ContextDir})
    ELSE IF stop = "ImageBuild"
    THEN Outcome(TRUE, {ContextDir, FeaturesPipe}, {ContextDir, FeaturesPipe})
    ELSE Outcome(stop = "io.Copy", {ContextDir, FeaturesPipe, ResponseBody(2)},
                 {ContextDir, FeaturesPipe, ResponseBody(2)})

BuildFeaturesStops ==
    {"MkdirTemp", "MkdirAll", "copyDir", "featureEntrypointPath", "WriteFile", "ImageBuild",
     "io.Copy", "end"}

\* writeComposeOverride: the file exists once CreateTemp returned; the caller defers its
\* removal when it gets the name
writeComposeOverride(stop) ==
    IF stop = "CreateTemp" THEN Outcome(TRUE, {}, {})
    ELSE IF stop \in {"Write", "Close"} THEN Outcome(TRUE, {OverrideFile}, {})
    ELSE Outcome(FALSE, {OverrideFile}, {})

OverrideStops == {"CreateTemp", "Write", "Close", "end"}

\* a call: the entry point, the kind of configuration, the features it fetches
CleanupInit ==
    /\ callee \in {"StartDevcontainer", "BuildImageFromDevcontainer"}
    /\ \E compose \in BOOLEAN, build \in BOOLEAN, n \in 0..MaxFeatures :
        /\ compose => ~build
        /\ callArgs = [compose |-> compose, build |-> build, nFeatures |-> n]
    /\ callResult = Pending
    /\ frame = [pc |-> "validateConfig", fetched |-> 0, defers |-> {}]
    /\ world = [live |-> {}, released |-> {}]

\* the call returns: its deferred calls run
CleanupReturn(err, w) ==
    /\ callResult' = Returned(err)
    /\ world' = [live |-> w.live \ frame.defers, released |-> w.released \cup frame.defers]
    /\ frame' = [frame EXCEPT !.pc = "done"]

\* the resources of a called function: acquired, and released by its own deferred calls
AfterCall(w, o) ==
    [live |-> (w.live \cup o.acquired) \ o.deferred, released |-> w.released \cup o.deferred]

\* LoadConfig, validateConfig; BuildImageFromDevcontainer refuses compose
CleanupValidate ==
    /\ callee \in {"StartDevcontainer", "BuildImageFromDevcontainer"}
    /\ frame.pc = "validateConfig"
    /\ \E ok \in BOOLEAN :
        IF ~ok \/ (callee = "BuildImageFromDevcontainer" /\ callArgs.compose)
        THEN CleanupReturn("config", world)
        ELSE /\ frame' = [frame EXCEPT !.pc = "resolveFeatures"]
             /\ UNCHANGED <<callResult, world>>
    /\ UNCHANGED <<callee, callArgs, outsideCall>>

\* resolveFeatures: one more feature is fetched and extracted
CleanupFetchFeature ==
    /\ callee \in {"StartDevcontainer", "BuildImageFromDevcontainer"}
    /\ frame.pc = "resolveFeatures" /\ frame.fetched < callArgs.nFeatures
    /\ \E stop \in ExtractStops :
        \E o \in {extractFeatureArchive(frame.fetched + 1, stop)} :
            IF o.err
            THEN CleanupReturn("resolveFeatures", AfterCall(world, o))
            ELSE /\ world' = AfterCall(world, o)
                 /\ frame' = [frame EXCEPT !.fetched = @ + 1]
                 /\ UNCHANGED callResult
    /\ UNCHANGED <<callee, callArgs, outsideCall>>

\* initializeCommand (StartDevcontainer), then newDockerClient and its deferred Close
CleanupNewClient ==
    /\ callee \in {"StartDevcontainer", "BuildImageFromDevcontainer"}
    /\ frame.pc = "resolveFeatures" /\ frame.fetched = callArgs.nFeatures
    /\ \E ok \in BOOLEAN :
        IF ok
        THEN /\ world' = [world EXCEPT !.live = @ \cup {EngineClient}]
             /\ frame' = [frame EXCEPT !.pc = "image", !.defers = @ \cup {EngineClient}]
             /\ UNCHANGED callResult
        ELSE CleanupReturn("start", world)
    /\ UNCHANGED <<callee, callArgs, outsideCall>>

\* ensureImage / buildImage, then buildFeaturesImage
CleanupBuildImages ==
    /\ callee \in {"StartDevcontainer", "BuildImageFromDevcontainer"}
    /\ frame.pc = "image"
    /\ \E s1 \in BuildImageStops, s2 \in BuildFeaturesStops :
        \E o1 \in {IF callArgs.build THEN buildImage(s1) ELSE Outcome(s1 # "end", {}, {})} :
            \E o2 \in {buildFeaturesImage(callArgs.nFeatures, s2)} :
                IF o1.err
                THEN CleanupReturn("image", AfterCall(world, o1))
                ELSE IF o2.err
                THEN CleanupReturn("features", AfterCall(AfterCall(world, o1), o2))
                ELSE IF callee = "BuildImageFromDevcontainer"
                THEN CleanupReturn("", AfterCall(AfterCall(world, o1), o2))
                ELSE /\ world' = AfterCall(AfterCall(world, o1), o2)
                     /\ frame' = [frame EXCEPT !.pc = IF callArgs.compose THEN "override"
                                                      ELSE "container"]
                     /\ UNCHANGED callResult
    /\ UNCHANGED <<callee, callArgs, outsideCall>>

\* startComposeDevcontainer: the override file and its deferred removal
CleanupWriteOverride ==
    /\ callee = "StartDevcontainer" /\ frame.pc = "override"
    /\ \E stop \in OverrideStops :
        \E o \in {writeComposeOverride(stop)} :
            IF o.err
            THEN CleanupReturn("override", AfterCall(world, o))
            ELSE /\ world' = AfterCall(world, o)
                 /\ frame' = [frame EXCEPT !.pc = "container", !.defers = @ \cup {OverrideFile}]
                 /\ UNCHANGED callResult
    /\ UNCHANGED <<callee, callArgs, outsideCall>>

\* the container is created and started (compose up), the hooks run, the call returns
CleanupRunContainer ==
    /\ callee = "StartDevcontainer" /\ frame.pc = "container"
    /\ \E err \in {"", "engine", "command"} : CleanupReturn(err, world)
    /\ UNCHANGED <<callee, callArgs, outsideCall>>

CleanupNext ==
    \/ CleanupValidate
    \/ CleanupFetchFeature
    \/ CleanupNewClient
    \/ CleanupBuildImages
    \/ CleanupWriteOverride
    \/ CleanupRunContainer

(***************************************************************************)
(* extractFeatureArchive                                                   *)
(***************************************************************************)
\* filepath.Dir of a clean path
Dir(p) == IF Len(p) <= 1 THEN p ELSE SubSeq(p, 1, Len(p) - 1)

\* filepath.Rel of two clean absolute paths: up from base to the common ancestor, then down
Rel(base, targ) ==
    LET common == {k \in 0..Len(base) : k <= Len(targ) /\ SubSeq(base, 1, k) = SubSeq(targ, 1, k)}
        k == CHOOSE n \in common : \A m \in common : m <= n
        rel == [i \in 1..(Len(base) - k) |-> ".."] \o SubSeq(targ, k + 1, Len(targ))
    IN  IF rel = <<>> THEN <<".">> ELSE rel

\* strings.HasPrefix(rel, ".."): the first element begins with two dots
BeginsWithDotDot(rel) == rel # <<>> /\ rel[1] \in {"..", "..data"}

\* the target of an entry under root, or an error
safeExtractPath(root, name) ==
    LET cleaned == Clean(name)
        target == Join(root, cleaned)
    IN  IF BeginsWithDotDot(Rel(root, target)) THEN [err |-> TRUE, target |-> <<>>]
        ELSE [err |-> FALSE, target |-> target]

\* the file system: clean absolute path -> directory, file or symlink with its target
FsDir == [kind |-> "dir", link |-> <<>>]
FsFile == [kind |-> "file", link |-> <<>>]
FsLink(to) == [kind |-> "link", link |-> to]

ExtractRoot == <<"/", "tmp", "godev2-feature-1">>

InitialFs ==
    (<<"/">> :> FsDir) @@ (<<"/", "tmp">> :> FsDir) @@ (<<"/", "etc">> :> FsDir)
    @@ (<<"/", "etc", "passwd">> :> FsFile)

\* where the kernel finds a path: symlinks on the way are followed, the last element too
\* when followLast; rest are the elements still to walk from the directory at
RECURSIVE Walk(_, _, _, _, _)
Walk(fs, at, rest, followLast, fuel) ==
    IF rest = <<>> THEN [ok |-> TRUE, path |-> at]
    ELSE IF fuel = 0 THEN [ok |-> FALSE, path |-> at]
    ELSE LET e == Head(rest)
             more == Tail(rest)
             cand == at \o <<e>>
         IN  IF e = "/" THEN Walk(fs, <<"/">>, more, followLast, fuel)
             ELSE IF e = "." THEN Walk(fs, at, more, followLast, fuel)
             ELSE IF e = ".." THEN Walk(fs, Dir(at), more, followLast, fuel)
             ELSE IF cand \in DOMAIN fs /\ fs[cand].kind = "link"
                     /\ (more # <<>> \/ followLast)
             THEN Walk(fs, at, fs[cand].link \o more, followLast, fuel - 1)
             ELSE Walk(fs, cand, more, followLast, fuel)

MaxLinkHops == 4

RealPath(fs, p, followLast) == Walk(fs, <<"/">>, p, followLast, MaxLinkHops)

\* the result of a file system call: the file system after it, what it created or wrote
FsResult(err, fs, touched) == [err |-> err, fs |-> fs, touched |-> touched]

\* os.MkdirAll: the missing directories down to the real place of path
MkdirAll(fs, path) ==
    LET real == RealPath(fs, path, TRUE)
        prefixes == {SubSeq(real.path, 1, n) : n \in 1..Len(real.path)}
        missing == {q \in prefixes : q \notin DOMAIN fs}
    IN  IF ~real.ok \/ \E q \in prefixes : q \in DOMAIN fs /\ fs[q].kind # "dir"
        THEN FsResult(TRUE, fs, {})
        ELSE FsResult(FALSE, [q \in DOMAIN fs \cup missing |->
                                 IF q \in missing THEN FsDir ELSE fs[q]], missing)

\* os.OpenFile(O_CREATE|O_WRONLY|O_TRUNC) and the copy: the file at the real place of path
WriteFile(fs, path) ==
    LET real == RealPath(fs, path, TRUE)
        exists == real.path \in DOMAIN fs
    IN  IF ~real.ok \/ (exists /\ fs[real.path].kind = "dir")
           \/ Dir(real.path) \notin DOMAIN fs
        THEN FsResult(TRUE, fs, {})
        ELSE FsResult(FALSE, [q \in DOMAIN fs \cup {real.path} |->
                                 IF q = real.path THEN FsFile ELSE fs[q]], {real.path})

\* os.Symlink: a new symlink at path, in the real place of its directory
Symlink(fs, linkname, path) ==
    LET real == RealPath(fs, path, FALSE)
    IN  IF ~real.ok \/ real.path \in DOMAIN fs \/ Dir(real.path) \notin DOMAIN fs
        THEN FsResult(TRUE, fs, {})
        ELSE FsResult(FALSE, [q \in DOMAIN fs \cup {real.path} |->
                                 IF q = real.path THEN FsLink(linkname) ELSE fs[q]],
                      {real.path})

\* one call after the other, stopping at the first error
Then(r, next(_)) ==
    IF r.err THEN r
    ELSE LET s == next(r.fs) IN FsResult(s.err, s.fs, r.touched \cup s.touched)

\* the body of the loop of extractFeatureArchive for one header
extractEntry(fs, root, header) ==
    LET p == safeExtractPath(root, header.name)
    IN  IF p.err THEN FsResult(TRUE, fs, {})
        ELSE IF header.type = "dir" THEN MkdirAll(fs, p.target)
        ELSE IF header.type = "reg"
        THEN LET write(f) == WriteFile(f, p.target) IN Then(MkdirAll(fs, Dir(p.target)), write)
        ELSE IF header.type = "symlink"
        THEN LET link(f) == Symlink(f, header.linkname, p.target)
             IN  Then(MkdirAll(fs, Dir(p.target)), link)
        ELSE FsResult(FALSE, fs, {})

\* headers of the archives of the model
MaxEntries == 2
EntryNames ==
    {<<"a">>, <<"a", "b">>, <<"l">>, <<"l", "x">>, <<"..", "x">>, <<"a", "..", "..", "x">>,
     <<"/", "etc", "x">>, <<"..data">>}
LinkNames == {<<"/", "etc">>, <<"..">>, <<"/", "etc", "passwd">>, <<"a">>}
Headers ==
    {[name |-> n, type |-> t, linkname |-> <<>>] : n \in EntryNames, t \in {"dir", "reg", "fifo"}}
    \cup {[name |-> n, type |-> "symlink", linkname |-> l] : n \in EntryNames, l \in LinkNames}
Archives == UNION {[1..n -> Headers] : n \in 0..MaxEntries}

ExtractInit ==
    /\ callee = "extractFeatureArchive"
    /\ \E archive \in Archives, format \in {"tar", "gzip+tar"} :
        callArgs = [data |-> archive, format |-> format]
    /\ callResult = Pending
    /\ frame = [pc |-> "MkdirTemp", root |-> <<>>, next |-> 1]
    /\ world = [fs |-> InitialFs, touched |-> {}]

\* os.MkdirTemp, then the gzip reader or, when the data is no gzip stream, the tar reader
ExtractOpen ==
    /\ callee = "extractFeatureArchive" /\ frame.pc = "MkdirTemp"
    /\ \E ok \in BOOLEAN :
        IF ok
        THEN /\ world' = [fs |-> (ExtractRoot :> FsDir) @@ world.fs, touched |-> {ExtractRoot}]
             /\ frame' = [frame EXCEPT !.pc = "next", !.root = ExtractRoot]
             /\ UNCHANGED callResult
        ELSE /\ callResult' = Returned([dir |-> <<>>, err |-> "MkdirTemp"])
             /\ frame' = [frame EXCEPT !.pc = "done"]
             /\ UNCHANGED world
    /\ UNCHANGED <<callee, callArgs, outsideCall>>

\* tarReader.Next and the switch on the type of the header
ExtractEntry ==
    /\ callee = "extractFeatureArchive" /\ frame.pc = "next"
    /\ frame.next <= Len(callArgs.data)
    /\ \E r \in {extractEntry(world.fs, frame.root, callArgs.data[frame.next])} :
        /\ world' = [fs |-> r.fs, touched |-> world.touched \cup r.touched]
        /\ IF r.err
           THEN /\ callResult' = Returned([dir |-> <<>>, err |-> "entry"])
                /\ frame' = [frame EXCEPT !.pc = "done"]
           ELSE /\ frame' = [frame EXCEPT !.next = @ + 1]
                /\ UNCHANGED callResult
    /\ UNCHANGED <<callee, callArgs, outsideCall>>

\* io.EOF: findFeatureRoot
ExtractFinish ==
    /\ callee = "extractFeatureArchive" /\ frame.pc = "next"
    /\ frame.next > Len(callArgs.data)
    /\ \E found \in BOOLEAN :
        callResult' = Returned(IF found THEN [dir |-> frame.root, err |-> ""]
                               ELSE [dir |-> <<>>, err |-> "findFeatureRoot"])
    /\ frame' = [frame EXCEPT !.pc = "done"]
    /\ UNCHANGED <<callee, callArgs, world, outsideCall>>

ExtractNext ==
    \/ ExtractOpen
    \/ ExtractEntry
    \/ ExtractFinish

(***************************************************************************)
(* registryClient.doRequest                                                *)
(***************************************************************************)
\* what the registry answers: a response with a status, or a transport error
Response(status, challenge, body) ==
    [err |-> FALSE, status |-> status, challenge |-> challenge, body |-> body]
TransportError == [err |-> TRUE, status |-> 0, challenge |-> <<>>, body |-> ""]

\* the Www-Authenticate header: absent, or a scheme with its parameters
NoChallenge == <<>>
Challenges ==
    {NoChallenge,
     [scheme |-> "Bearer", realm |-> "https://auth.example/token"],
     [scheme |-> "Bearer", realm |-> ""],
     [scheme |-> "Basic", realm |-> "registry"]}

FirstResponses ==
    {Response(200, NoChallenge, "manifest"), Response(404, NoChallenge, "")}
    \cup {Response(401, c, "first") : c \in Challenges} \cup {TransportError}
RetryResponses ==
    {Response(200, NoChallenge, "manifest"), Response(403, NoChallenge, ""),
     Response(401, [scheme |-> "Bearer", realm |-> "https://auth.example/token"], "retry"),
     TransportError}
\* the token endpoint: a transport error, a status, a body without a token, a token
TokenAnswers == {"transport error", "403", "no json", "empty token", "token"}

\* mutant: no token is ever obtained
fetchBearerTokenNever(challenge, answer) == [err |-> TRUE, token |-> "", asked |-> FALSE]

\* fetchBearerToken: the token, or an error; asked tells that the realm was requested
fetchBearerToken(challenge, answer) ==
    IF challenge.scheme # "Bearer" THEN [err |-> TRUE, token |-> "", asked |-> FALSE]
    ELSE IF challenge.realm = "" THEN [err |-> TRUE, token |-> "", asked |-> FALSE]
    ELSE IF answer = "token" THEN [err |-> FALSE, token |-> "t0k", asked |-> TRUE]
    ELSE [err |-> TRUE, token |-> "", asked |-> TRUE]

RequestInit ==
    /\ callee = "doRequest"
    /\ \E identityToken \in {"", "id"}, basic \in BOOLEAN :
        callArgs = [registry |-> "r", method |-> "GET", url |-> "https://r/v2/foo/manifests/1",
                    auth |-> [identityToken |-> identityToken, basic |-> basic]]
    /\ callResult = Pending
    /\ frame = [pc |-> "Do", resp |-> TransportError]
    /\ \E first \in FirstResponses, retry \in RetryResponses, answer \in TokenAnswers :
        world = [first |-> first, retry |-> retry, token |-> answer, sent |-> <<>>]

\* a request as the servers see it
RegistryRequest(authorization) ==
    [to |-> "registry", method |-> callArgs.method, url |-> callArgs.url,
     authorization |-> authorization]
TokenRequest(realm) ==
    [to |-> realm, method |-> "GET", url |-> realm,
     authorization |-> IF callArgs.auth.basic THEN "Basic" ELSE ""]

RequestReturn(resp, err) ==
    /\ callResult' = Returned([resp |-> resp, err |-> err])
    /\ frame' = [frame EXCEPT !.pc = "done"]

\* the first request; every response but a 401 with a challenge is returned as it is
DoRequest ==
    /\ callee = "doRequest" /\ frame.pc = "Do"
    /\ world' = [world EXCEPT !.sent = Append(@, RegistryRequest(
                    IF callArgs.auth.identityToken # ""
                    THEN "Bearer " \o callArgs.auth.identityToken ELSE ""))]
    /\ IF world.first.err THEN RequestReturn(<<>>, TRUE)
       ELSE IF world.first.status # 401 THEN RequestReturn(world.first, FALSE)
       ELSE IF world.first.challenge = NoChallenge THEN RequestReturn(world.first, FALSE)
       ELSE /\ frame' = [frame EXCEPT !.pc = "fetchBearerToken", !.resp = world.first]
            /\ UNCHANGED callResult
    /\ UNCHANGED <<callee, callArgs, outsideCall>>

\* fetchBearerToken, then the retry with the token
FetchBearerTokenAndRetry ==
    /\ callee = "doRequest" /\ frame.pc = "fetchBearerToken"
    /\ \E t \in {fetchBearerToken(frame.resp.challenge, world.token)} :
        LET asked == IF t.asked THEN <<TokenRequest(frame.resp.challenge.realm)>> ELSE <<>>
        IN  IF t.err
            THEN /\ world' = [world EXCEPT !.sent = @ \o asked]
                 /\ RequestReturn(frame.resp, FALSE)
            ELSE /\ world' = [world EXCEPT
                        !.sent = @ \o asked \o <<RegistryRequest("Bearer " \o t.token)>>]
                 /\ IF world.retry.err THEN RequestReturn(<<>>, TRUE)
                    ELSE RequestReturn(world.retry, FALSE)
    /\ UNCHANGED <<callee, callArgs, outsideCall>>

RequestNext ==
    \/ DoRequest
    \/ FetchBearerTokenAndRetry

(***************************************************************************)
(* tarDirectory: the producer goroutine, the pipe and its consumer         *)
(***************************************************************************)
MaxTarEntries == 2

NoChunk == <<>>
Header(i) == <<"header", i>>
Body(i) == <<"body", i>>
Footer == <<"footer", 0>>

\* the chunks of the complete archive of a directory
RECURSIVE ArchiveChunks(_, _)
ArchiveChunks(entries, i) ==
    IF i > Len(entries) THEN <<Footer>>
    ELSE (IF entries[i] = "file" THEN <<Header(i), Body(i)>> ELSE <<Header(i)>>)
         \o ArchiveChunks(entries, i + 1)

\* where the walk fails: nowhere (at = 0), or at an entry, in entry.Info / FileInfoHeader
\* or, for a file, in os.Open or in the copy
WalkFailures(entries) ==
    {[at |-> 0, step |-> ""]}
    \cup {[at |-> i, step |-> "Info"] : i \in DOMAIN entries}
    \cup {[at |-> i, step |-> s] : i \in {j \in DOMAIN entries : entries[j] = "file"},
                                  s \in {"Open", "Copy"}}

PipeInit ==
    /\ callee = "tarDirectory"
    /\ \E entries \in UNION {[1..n -> {"file", "dir"}] : n \in 0..MaxTarEntries} :
        \E fail \in WalkFailures(entries) :
            callArgs = [entries |-> entries, fail |-> fail]
    \* the pipe reader is returned at once; the goroutine runs
    /\ callResult = Returned("pipeReader")
    /\ frame = [pc |-> "walk", i |-> 1, walkErr |-> ""]
    /\ world = [pending |-> NoChunk, wclosed |-> "open", rclosed |-> FALSE,
                received |-> <<>>, saw |-> ""]

producerVars == <<callee, callArgs, callResult, outsideCall>>

\* mutant: a failed walk closes the pipe without its error
closeAfterWalkNoError(walkErr) == "open"

\* if walkErr != nil { pipeWriter.CloseWithError(walkErr) }
closeAfterWalk(walkErr) == IF walkErr # "" THEN walkErr ELSE "open"

\* the walk function on the next entry: the header is written, or the walk fails
ProducerWalk ==
    /\ callee = "tarDirectory" /\ frame.pc = "walk" /\ frame.i <= Len(callArgs.entries)
    /\ IF callArgs.fail.at = frame.i /\ callArgs.fail.step = "Info"
       THEN /\ frame' = [frame EXCEPT !.pc = "closeWithError", !.walkErr = "walk error"]
            /\ UNCHANGED world
       ELSE /\ frame' = [frame EXCEPT !.pc = "writingHeader"]
            /\ world' = [world EXCEPT !.pending = Header(frame.i)]
    /\ UNCHANGED producerVars

\* after the header: a directory is done, a file is opened and copied
ProducerBody ==
    /\ callee = "tarDirectory" /\ frame.pc = "afterHeader"
    /\ IF callArgs.entries[frame.i] = "dir"
       THEN /\ frame' = [frame EXCEPT !.pc = "walk", !.i = @ + 1]
            /\ UNCHANGED world
       ELSE IF callArgs.fail.at = frame.i
       THEN /\ frame' = [frame EXCEPT !.pc = "closeWithError", !.walkErr = "walk error"]
            /\ UNCHANGED world
       ELSE /\ frame' = [frame EXCEPT !.pc = "writingBody"]
            /\ world' = [world EXCEPT !.pending = Body(frame.i)]
    /\ UNCHANGED producerVars

\* the consumer reads what the producer is writing: the write returns
ConsumerRead ==
    /\ callee = "tarDirectory" /\ world.pending # NoChunk /\ ~world.rclosed
    /\ world' = [world EXCEPT !.pending = NoChunk, !.received = Append(@, world.pending)]
    /\ frame' = [frame EXCEPT
            !.pc = IF @ = "writingHeader" THEN "afterHeader"
                   ELSE IF @ = "writingBody" THEN "walk" ELSE "pipeClose",
            !.i = IF frame.pc = "writingBody" THEN @ + 1 ELSE @]
    /\ UNCHANGED producerVars

\* the read end is closed: the write returns io.ErrClosedPipe
ProducerWriteError ==
    /\ callee = "tarDirectory" /\ world.pending # NoChunk /\ world.rclosed
    /\ world' = [world EXCEPT !.pending = NoChunk]
    /\ frame' = IF frame.pc = "writingFooter"
                THEN [frame EXCEPT !.pc = "pipeClose"]
                ELSE [frame EXCEPT !.pc = "closeWithError", !.walkErr = "io.ErrClosedPipe"]
    /\ UNCHANGED producerVars

\* WalkDir returned nil
ProducerWalkDone ==
    /\ callee = "tarDirectory" /\ frame.pc = "walk" /\ frame.i > Len(callArgs.entries)
    /\ frame' = [frame EXCEPT !.pc = "tarClose"]
    /\ UNCHANGED <<world, producerVars>>

\* WalkDir returned an error
ProducerCloseWithError ==
    /\ callee = "tarDirectory" /\ frame.pc = "closeWithError"
    /\ world' = [world EXCEPT !.wclosed = IF @ = "open" THEN closeAfterWalk(frame.walkErr)
                                          ELSE @]
    /\ frame' = [frame EXCEPT !.pc = "tarClose"]
    /\ UNCHANGED producerVars

\* deferred: tarWriter.Close writes the footer, unless the writer or the pipe has failed
ProducerTarClose ==
    /\ callee = "tarDirectory" /\ frame.pc = "tarClose"
    /\ IF frame.walkErr # "" \/ world.wclosed # "open"
       THEN /\ frame' = [frame EXCEPT !.pc = "pipeClose"]
            /\ UNCHANGED world
       ELSE /\ frame' = [frame EXCEPT !.pc = "writingFooter"]
            /\ world' = [world EXCEPT !.pending = Footer]
    /\ UNCHANGED producerVars

\* deferred: pipeWriter.Close; an error set before stays
ProducerPipeClose ==
    /\ callee = "tarDirectory" /\ frame.pc = "pipeClose"
    /\ world' = [world EXCEPT !.wclosed = IF @ = "open" THEN "EOF" ELSE @]
    /\ frame' = [frame EXCEPT !.pc = "exited"]
    /\ UNCHANGED producerVars

\* a read on the closed pipe: io.EOF or the error of CloseWithError
ConsumerSeesEnd ==
    /\ callee = "tarDirectory" /\ world.wclosed # "open" /\ world.pending = NoChunk
    /\ ~world.rclosed /\ world.saw = ""
    /\ world' = [world EXCEPT !.saw = world.wclosed]
    /\ UNCHANGED <<frame, producerVars>>

\* buildContext.Close, deferred by buildImage and buildFeaturesImage
ConsumerClose ==
    /\ callee = "tarDirectory" /\ ~world.rclosed
    /\ world' = [world EXCEPT !.rclosed = TRUE]
    /\ UNCHANGED <<frame, producerVars>>

PipeNext ==
    \/ ProducerWalk
    \/ ProducerBody
    \/ ConsumerRead
    \/ ProducerWriteError
    \/ ProducerWalkDone
    \/ ProducerCloseWithError
    \/ ProducerTarClose
    \/ ProducerPipeClose
    \/ ConsumerSeesEnd
    \/ ConsumerClose

(***************************************************************************)
(* Variable expansion.  A string is the sequence of its pieces: the        *)
(* characters "$", "{", "}", ":", "/" one by one, a name or another run of *)
(* characters as one piece; "" is the empty sequence.                      *)
(***************************************************************************)
EmptyString == <<>>

\* the index of the first piece c of s at or after from, 0 when there is none
IndexFrom(s, c, from) ==
    LET hits == {i \in from..Len(s) : s[i] = c}
    IN  IF hits = {} THEN 0 ELSE CHOOSE i \in hits : \A j \in hits : i <= j

\* the leftmost match of \$\{([^}]+)\} in s at or after from: where it begins and ends
variablePattern(s, from) ==
    LET starts == {i \in from..Len(s) :
                      /\ s[i] = "$" /\ i + 1 <= Len(s) /\ s[i + 1] = "{"
                      /\ IndexFrom(s, "}", i + 2) > i + 2}
    IN  IF starts = {} THEN [begin |-> 0, end |-> 0]
        ELSE LET b == CHOOSE i \in starts : \A j \in starts : i <= j
             IN  [begin |-> b, end |-> IndexFrom(s, "}", b + 2)]

\* os.Getenv: "" for a variable that is not set
Getenv(env, name) == IF name \in DOMAIN env THEN env[name] ELSE EmptyString

\* resolveEnvVariable: NAME or NAME:default
resolveEnvVariable(token, env) ==
    LET colon == IndexFrom(token, ":", 1)
        name == IF colon = 0 THEN token ELSE SubSeq(token, 1, colon - 1)
        value == Getenv(env, name)
    IN  IF value = EmptyString /\ colon # 0
        THEN [err |-> "", value |-> SubSeq(token, colon + 1, Len(token))]
        ELSE [err |-> "", value |-> value]

\* mutant: a bare name is looked up in containerEnv before the variables
resolveVariableContainerEnvFirst(token, variables, containerEnv, env) ==
    IF token \in DOMAIN containerEnv THEN [err |-> "", value |-> containerEnv[token]]
    ELSE IF token \in DOMAIN variables THEN [err |-> "", value |-> variables[token]]
    ELSE IF Getenv(env, token) # EmptyString THEN [err |-> "", value |-> Getenv(env, token)]
    ELSE [err |-> "unsupported variable", value |-> EmptyString]

resolveVariable(token, variables, containerEnv, env) ==
    IF HasPrefix(token, <<"localEnv", ":">>)
    THEN resolveEnvVariable(SubSeq(token, 3, Len(token)), env)
    ELSE IF HasPrefix(token, <<"containerEnv", ":">>)
    THEN LET key == SubSeq(token, 3, Len(token))
         IN  IF key \in DOMAIN containerEnv THEN [err |-> "", value |-> containerEnv[key]]
             ELSE resolveEnvVariable(key, env)
    ELSE IF token \in DOMAIN variables THEN [err |-> "", value |-> variables[token]]
    ELSE IF token \in DOMAIN containerEnv THEN [err |-> "", value |-> containerEnv[token]]
    ELSE IF Getenv(env, token) # EmptyString THEN [err |-> "", value |-> Getenv(env, token)]
    ELSE [err |-> "unsupported variable", value |-> EmptyString]

\* the loop of expandVariables over the matches at or after from
RECURSIVE expandMatches(_, _, _, _, _)
expandMatches(input, from, variables, containerEnv, env) ==
    LET m == variablePattern(input, from)
    IN  IF m.begin = 0
        THEN [err |-> "", value |-> SubSeq(input, from, Len(input))]
        ELSE LET r == resolveVariable(SubSeq(input, m.begin + 2, m.end - 1), variables,
                                      containerEnv, env)
             IN  IF r.err # "" THEN [err |-> r.err, value |-> EmptyString]
                 ELSE LET rest == expandMatches(input, m.end + 1, variables, containerEnv, env)
                      IN  IF rest.err # "" THEN rest
                          ELSE [err |-> "",
                                value |-> SubSeq(input, from, m.begin - 1) \o r.value
                                          \o rest.value]

expandVariables(input, variables, containerEnv, env) ==
    expandMatches(input, 1, variables, containerEnv, env)

(* ---- one expandVariables call ---- *)
MaxInputParts == 2

\* the tokens between ${ and }, and the pieces of text around them
ExpandTokens ==
    {<<"A">>, <<"B">>, <<"localEnv", ":", "A">>, <<"localEnv", ":", "A", ":", "dflt">>,
     <<"localEnv", ":", "B", ":", "d", ":", "e">>, <<"containerEnv", ":", "A">>,
     <<"containerEnv", ":", "B">>, <<"containerEnv", ":", "B", ":", "dflt">>}
InputParts ==
    {<<"$", "{">> \o t \o <<"}">> : t \in ExpandTokens}
    \cup {<<"text">>, <<"$", "{", "}">>, <<"}">>, <<"$", "{", "A">>}
ExpandInputs == UNION {{FlattenSeq(ps) : ps \in [1..n -> InputParts]} : n \in 0..MaxInputParts}

\* the names the maps and the process environment may hold, and their values
EnvNames == {<<"A">>, <<"B">>}
ExpandInit ==
    /\ callee = "expandVariables"
    /\ \E input \in ExpandInputs,
          variables \in PartialMaps({<<"A">>}, {<<"var">>, EmptyString}, 1),
          containerEnv \in PartialMaps(EnvNames, {<<"cenv">>, EmptyString}, 1) :
            callArgs = [input |-> input, vars |-> variables, containerEnv |-> containerEnv]
    /\ callResult = Pending
    /\ frame = <<>>
    /\ \E env \in PartialMaps(EnvNames, {<<"env">>, EmptyString}, 2) : world = [env |-> env]

CallExpandVariables ==
    /\ callee = "expandVariables" /\ ~callResult.done
    /\ callResult' = Returned(expandVariables(callArgs.input, callArgs.vars,
                                              callArgs.containerEnv, world.env))
    /\ UNCHANGED <<callee, callArgs, frame, world, outsideCall>>

(* ---- one mergeEnvMaps call: the two range loops, one entry per step; a Go map ---- *)
(* ---- is ranged over in an order the program does not choose                   ---- *)
MaxEnvEntries == 2

EnvKeys == {<<"A">>, <<"B">>}
EnvValues ==
    {<<"1">>, <<"2">>, <<"$", "{", "containerEnv", ":", "B", "}">>, <<"$", "{", "B", "}">>,
     <<"$", "{", "C", "}">>}
EnvMaps == PartialMaps(EnvKeys, EnvValues, MaxEnvEntries)
NilEnvMap == [nil |-> TRUE]

MergeEnvInit ==
    /\ callee = "mergeEnvMaps"
    /\ \E base \in EnvMaps, overlay \in EnvMaps,
          variables \in PartialMaps({<<"B">>}, {<<"var">>}, 1) :
            callArgs = [base |-> base, overlay |-> overlay, vars |-> variables]
    /\ callResult = Pending
    /\ frame = [pc |-> "base", merged |-> <<>>, ranged |-> <<>>]
    /\ world = [env |-> <<>>]

\* the body of both loops for the entry key of the map from: expand, then store or return
mergeEntry(from, source, key) ==
    LET expanded == expandVariables(from[key], callArgs.vars, frame.merged, world.env)
        ranged == Append(frame.ranged, [source |-> source, key |-> key,
                                        expanded |-> expanded.value])
    IN  IF expanded.err # ""
        THEN /\ callResult' = Returned([err |-> expanded.err, merged |-> NilEnvMap])
             /\ frame' = [frame EXCEPT !.pc = "returned", !.ranged = ranged]
        ELSE /\ frame' = [frame EXCEPT
                            !.merged = [k \in DOMAIN frame.merged \cup {key} |->
                                           IF k = key THEN expanded.value
                                           ELSE frame.merged[k]],
                            !.ranged = ranged]
             /\ UNCHANGED callResult

RangedKeys(source) == {frame.ranged[i].key : i \in {j \in DOMAIN frame.ranged :
                                                        frame.ranged[j].source = source}}

MergeBaseEntry ==
    /\ callee = "mergeEnvMaps" /\ frame.pc = "base"
    /\ \E key \in DOMAIN callArgs.base \ RangedKeys("base") :
           mergeEntry(callArgs.base, "base", key)
    /\ UNCHANGED <<callee, callArgs, world, outsideCall>>

MergeBaseDone ==
    /\ callee = "mergeEnvMaps" /\ frame.pc = "base"
    /\ DOMAIN callArgs.base \ RangedKeys("base") = {}
    /\ frame' = [frame EXCEPT !.pc = "overlay"]
    /\ UNCHANGED <<callee, callArgs, callResult, world, outsideCall>>

MergeOverlayEntry ==
    /\ callee = "mergeEnvMaps" /\ frame.pc = "overlay"
    /\ \E key \in DOMAIN callArgs.overlay \ RangedKeys("overlay") :
           mergeEntry(callArgs.overlay, "overlay", key)
    /\ UNCHANGED <<callee, callArgs, world, outsideCall>>

MergeReturn ==
    /\ callee = "mergeEnvMaps" /\ frame.pc = "overlay"
    /\ DOMAIN callArgs.overlay \ RangedKeys("overlay") = {}
    /\ callResult' = Returned([err |-> "", merged |-> frame.merged])
    /\ frame' = [frame EXCEPT !.pc = "returned"]
    /\ UNCHANGED <<callee, callArgs, world, outsideCall>>

MergeEnvNext == MergeBaseEntry \/ MergeBaseDone \/ MergeOverlayEntry \/ MergeReturn

(***************************************************************************)
(* Slash-separated paths of package path, on strings of pieces             *)
(***************************************************************************)
\* strings.Split(s, "/"): the runs of pieces between the slashes
RECURSIVE SplitSlash(_)
SplitSlash(s) ==
    LET slash == IndexFrom(s, "/", 1)
    IN  IF slash = 0 THEN <<s>>
        ELSE <<SubSeq(s, 1, slash - 1)>> \o SplitSlash(SubSeq(s, slash + 1, Len(s)))

\* the loop of path.Clean over the elements: "" and "." are dropped, ".." removes the
\* element before it, or stays when there is none and the path is not rooted
RECURSIVE cleanElements(_, _, _)
cleanElements(elems, out, rooted) ==
    IF elems = <<>> THEN out
    ELSE LET e == Head(elems)
         IN  IF e = <<>> \/ e = <<".">> THEN cleanElements(Tail(elems), out, rooted)
             ELSE IF e = <<"..">>
             THEN IF out # <<>> /\ out[Len(out)] # <<"..">>
                  THEN cleanElements(Tail(elems), SubSeq(out, 1, Len(out) - 1), rooted)
                  ELSE IF rooted THEN cleanElements(Tail(elems), out, rooted)
                  ELSE cleanElements(Tail(elems), Append(out, e), rooted)
             ELSE cleanElements(Tail(elems), Append(out, e), rooted)

RECURSIVE JoinSlash(_)
JoinSlash(elems) ==
    IF elems = <<>> THEN <<>>
    ELSE IF Len(elems) = 1 THEN elems[1]
    ELSE elems[1] \o <<"/">> \o JoinSlash(Tail(elems))

pathIsAbs(s) == s # <<>> /\ s[1] = "/"

pathClean(s) ==
    IF s = <<>> THEN <<".">>
    ELSE LET out == JoinSlash(cleanElements(SplitSlash(s), <<>>, pathIsAbs(s)))
         IN  IF pathIsAbs(s) THEN <<"/">> \o out
             ELSE IF out = <<>> THEN <<".">> ELSE out

\* path.Join of two elements: empty elements are ignored, the result is cleaned
pathJoin(a, b) ==
    IF a = <<>> /\ b = <<>> THEN <<>>
    ELSE IF a = <<>> THEN pathClean(b)
    ELSE IF b = <<>> THEN pathClean(a)
    ELSE pathClean(a \o <<"/">> \o b)

(***************************************************************************)
(* The entrypoint check of buildFeaturesImage                              *)
(***************************************************************************)
MaxBuildFeatures == 2

featureImageBaseDir ==
    <<"/", "usr", "/", "local", "/", "share", "/", "devcontainer", "/", "features">>

\* the pieces sanitizeName keeps; every other piece is one character it replaces by "-"
AllowedPieces == {"foo", "my", "tool", "-", "_", "."}
RECURSIVE TrimPrefixAll(_, _)
TrimPrefixAll(s, c) == IF s # <<>> /\ Head(s) = c THEN TrimPrefixAll(Tail(s), c) ELSE s
RECURSIVE TrimSuffixAll(_, _)
TrimSuffixAll(s, c) ==
    IF s # <<>> /\ s[Len(s)] = c THEN TrimSuffixAll(SubSeq(s, 1, Len(s) - 1), c) ELSE s
sanitizeName(name) ==
    TrimSuffixAll(TrimPrefixAll([i \in DOMAIN name |->
                           IF name[i] \in AllowedPieces THEN name[i] ELSE "-"], "-"), "-")

\* fmt.Sprintf("%02d", n) for the positions of the model
TwoDigits(n) == <<"0">> \o <<CHOOSE d \in {"1", "2", "3"} : d = ToString(n)>>

\* feature.ImageDir of the feature with this ID at index idx (from 0) of the list
ImageDir(idx, id) ==
    pathJoin(featureImageBaseDir, TwoDigits(idx + 1) \o <<"-">> \o sanitizeName(id))

featureEntrypointPath(entrypoint, imageDir, variables) ==
    IF entrypoint = EmptyString THEN [err |-> "", value |-> EmptyString]
    ELSE LET expanded == IF \E i \in 1..(Len(entrypoint) - 1) :
                                entrypoint[i] = "$" /\ entrypoint[i + 1] = "{"
                         THEN expandVariables(entrypoint, variables, <<>>, <<>>)
                         ELSE [err |-> "", value |-> entrypoint]
         IN  IF expanded.err # "" THEN [err |-> expanded.err, value |-> EmptyString]
             ELSE IF ~pathIsAbs(expanded.value)
             THEN [err |-> "", value |-> pathJoin(imageDir, expanded.value)]
             ELSE expanded

\* the IDs and the declared entrypoints of the features; dir is the directory the
\* feature is given, name its last element
BuildFeatureIds == {<<"foo">>, <<"my", " ", "tool">>}
DeclaredEntrypoints(dir, name) ==
    {EmptyString,
     <<"run.sh">>,
     <<"bin", "/", ".", "/", "run.sh">>,
     <<"..", "/", "run.sh">>,
     <<"..", "/">> \o name \o <<"-", "other", "/", "run.sh">>,
     <<"/", "bin", "/", "sh">>,
     dir \o <<"/", "run.sh">>,
     dir \o <<"/", "..", "/", "..", "/", "run.sh">>,
     dir \o <<"-", "other", "/", "run.sh">>,
     <<"$", "{", "sub", "}", "/", "run.sh">>,
     <<"$", "{", "root", "}", "/", "run.sh">>,
     <<"$", "{", "unknown", "}">>}
EntrypointVars == (<<"sub">> :> <<"bin">>) @@ (<<"root">> :> <<"/", "opt">>)

BuildFeatureLists ==
    UNION {{fs \in [1..n -> [id : BuildFeatureIds,
                             entrypoint : UNION {DeclaredEntrypoints(ImageDir(i, id),
                                                     SubSeq(ImageDir(i, id), 12,
                                                            Len(ImageDir(i, id)))) :
                                                 i \in 0..(MaxBuildFeatures - 1),
                                                 id \in BuildFeatureIds}]] : TRUE}
           : n \in 1..MaxBuildFeatures}

EntrypointInit ==
    /\ callee = "buildFeaturesImage"
    /\ \E features \in BuildFeatureLists :
           callArgs = [features |-> features, vars |-> EntrypointVars]
    /\ callResult = Pending
    /\ frame = [pc |-> "loop", idx |-> 0, imageDirs |-> <<>>, entrypoints |-> <<>>]
    /\ world = <<>>

\* one turn of the loop over the features: ImageDir is assigned, the entrypoint resolved
\* and checked
CheckFeatureEntrypoint ==
    /\ callee = "buildFeaturesImage" /\ frame.pc = "loop"
    /\ frame.idx < Len(callArgs.features)
    /\ LET feature == callArgs.features[frame.idx + 1]
           imageDir == ImageDir(frame.idx, feature.id)
           entrypoint == featureEntrypointPath(feature.entrypoint, imageDir, callArgs.vars)
       IN  IF entrypoint.err # ""
           THEN /\ callResult' = Returned([err |-> entrypoint.err])
                /\ frame' = [frame EXCEPT !.pc = "returned"]
           ELSE IF entrypoint.value # EmptyString /\ ~HasPrefix(entrypoint.value, imageDir)
           THEN /\ callResult' = Returned([err |-> "feature entrypoint must be under"])
                /\ frame' = [frame EXCEPT !.pc = "returned"]
           ELSE /\ frame' = [frame EXCEPT !.idx = @ + 1,
                                          !.imageDirs = Append(@, imageDir),
                                          !.entrypoints = Append(@, entrypoint.value)]
                /\ UNCHANGED callResult
    /\ UNCHANGED <<callee, callArgs, world, outsideCall>>

\* every feature passed: the image is built
EntrypointsAccepted ==
    /\ callee = "buildFeaturesImage" /\ frame.pc = "loop"
    /\ frame.idx = Len(callArgs.features)
    /\ callResult' = Returned([err |-> ""])
    /\ frame' = [frame EXCEPT !.pc = "returned"]
    /\ UNCHANGED <<callee, callArgs, world, outsideCall>>

EntrypointNext == CheckFeatureEntrypoint \/ EntrypointsAccepted

(***************************************************************************)
(* Decoding a lifecycle hook.  A JSON text is the value it denotes with    *)
(* the members of an object in the order they are written; a Go string is  *)
(* its bytes.                                                              *)
(***************************************************************************)
MaxJSONItems == 2

JString(s) == [kind |-> "string", str |-> s, items |-> <<>>]
JArray(items) == [kind |-> "array", str |-> <<>>, items |-> items]
JObject(members) == [kind |-> "object", str |-> <<>>, items |-> members]
JNumber == [kind |-> "number", str |-> <<>>, items |-> <<>>]
JBool == [kind |-> "bool", str |-> <<>>, items |-> <<>>]
JNull == [kind |-> "null", str |-> <<>>, items |-> <<>>]

\* LifecycleCommand and LifecycleCommands; the pointer Single holds zero or one command
ShellCommand(s) == [Shell |-> s, Exec |-> <<>>]
ExecCommand(argv) == [Shell |-> <<>>, Exec |-> argv]
ZeroCommand == [Shell |-> <<>>, Exec |-> <<>>]
isEmpty(c) == c.Shell = <<>> /\ Len(c.Exec) = 0
ZeroCommands == [Single |-> <<>>, Parallel |-> <<>>]

\* json.Unmarshal of an array into []string: an element is a string, or null for ""
ArrayOfStrings(items) ==
    IF \A i \in DOMAIN items : items[i].kind \in {"string", "null"}
    THEN [err |-> "", values |-> [i \in DOMAIN items |-> items[i].str]]
    ELSE [err |-> "json: cannot unmarshal", values |-> <<>>]

parseLifecycleCommand(data) ==
    IF data.kind = "null" THEN [err |-> "", command |-> ZeroCommand]
    ELSE IF data.kind = "string"
    THEN IF TrimSpace(data.str) = <<>>
         THEN [err |-> "lifecycle command cannot be empty", command |-> ZeroCommand]
         ELSE [err |-> "", command |-> ShellCommand(data.str)]
    ELSE IF data.kind = "array"
    THEN LET values == ArrayOfStrings(data.items)
         IN  IF values.err # "" THEN [err |-> values.err, command |-> ZeroCommand]
             ELSE IF Len(values.values) = 0
             THEN [err |-> "lifecycle command array cannot be empty",
                   command |-> ZeroCommand]
             ELSE [err |-> "", command |-> ExecCommand(values.values)]
    ELSE [err |-> "invalid lifecycle command", command |-> ZeroCommand]

\* json.Unmarshal of an object into map[string]json.RawMessage: of two members with one
\* name the later one stays
RawMessages(members) ==
    [name \in {members[i].name : i \in DOMAIN members} |->
        LET last == CHOOSE i \in DOMAIN members :
                        /\ members[i].name = name
                        /\ \A j \in DOMAIN members : members[j].name = name => j <= i
        IN  members[last].value]

\* mutant: the names are not sorted (here: they come out in descending order)
sortedNamesDescending(raw) ==
    LET up == SortStrings(DOMAIN raw) IN [i \in DOMAIN up |-> up[Len(up) + 1 - i]]

\* names := keys of raw; sort.Strings(names)
sortedNames(raw) == SortStrings(DOMAIN raw)

\* the loop over the sorted names: the commands so far, or the first error
RECURSIVE parseNamed(_, _, _)
parseNamed(raw, names, commands) ==
    IF names = <<>> THEN [err |-> "", commands |-> commands]
    ELSE LET name == Head(names)
             parsed == parseLifecycleCommand(raw[name])
         IN  IF TrimSpace(name) = <<>>
             THEN [err |-> "lifecycle command name cannot be empty", commands |-> <<>>]
             ELSE IF parsed.err # "" THEN [err |-> parsed.err, commands |-> <<>>]
             ELSE IF isEmpty(parsed.command)
             THEN [err |-> "lifecycle command is empty", commands |-> <<>>]
             ELSE parseNamed(raw, Tail(names),
                             Append(commands, [Name |-> name, Command |-> parsed.command]))

\* (c *LifecycleCommands) UnmarshalJSON(data): the error and c afterwards
UnmarshalJSON(c, data) ==
    IF data.kind = "null" THEN [err |-> "", c |-> c]
    ELSE IF data.kind \in {"string", "array"}
    THEN LET parsed == parseLifecycleCommand(data)
         IN  IF parsed.err # "" THEN [err |-> parsed.err, c |-> c]
             ELSE IF isEmpty(parsed.command)
             THEN [err |-> "lifecycle command cannot be empty", c |-> c]
             ELSE [err |-> "", c |-> [Single |-> <<parsed.command>>, Parallel |-> <<>>]]
    ELSE IF data.kind = "object"
    THEN LET raw == RawMessages(data.items)
         IN  IF DOMAIN raw = {}
             THEN [err |-> "lifecycle command object cannot be empty", c |-> c]
             ELSE LET named == parseNamed(raw, sortedNames(raw), <<>>)
                  IN  IF named.err # "" THEN [err |-> named.err, c |-> c]
                      ELSE [err |-> "", c |-> [Single |-> <<>>, Parallel |-> named.commands]]
    ELSE [err |-> "invalid lifecycle command", c |-> c]

\* the canonical JSON form of a decoded hook: a string for Shell, an array of strings for
\* Exec, an object of such values in the order of Parallel, null for an unset hook
CanonicalCommand(command) ==
    IF command.Exec # <<>>
    THEN JArray([i \in DOMAIN command.Exec |-> JString(command.Exec[i])])
    ELSE JString(command.Shell)
CanonicalForm(c) ==
    IF c.Single # <<>> THEN CanonicalCommand(c.Single[1])
    ELSE IF c.Parallel # <<>>
    THEN JObject([i \in DOMAIN c.Parallel |->
                     [name |-> c.Parallel[i].Name,
                      value |-> CanonicalCommand(c.Parallel[i].Command)]])
    ELSE JNull

\* the JSON texts given to the decoder
HookStrings == {<<>>, <<32>>, Str_foo, Str_bar}
HookNames == {<<32>>, Str_bar, Str_Baz, Str_foo}
ArrayItems == {JString(s) : s \in {<<>>, Str_foo, Str_bar}} \cup {JNull, JNumber}
JSONArrays == UNION {{JArray(a) : a \in [1..n -> ArrayItems]} : n \in 0..MaxJSONItems}
MemberValues ==
    {JString(s) : s \in {<<>>, Str_foo}}
    \cup {JArray(<<>>), JArray(<<JString(Str_foo), JString(Str_bar)>>), JNull, JNumber,
          JObject(<<>>)}
JSONObjects ==
    UNION {{JObject(m) : m \in [1..n -> [name : HookNames, value : MemberValues]]} :
           n \in 0..MaxJSONItems}
HookTexts ==
    {JString(s) : s \in HookStrings} \cup JSONArrays \cup JSONObjects
    \cup {JNumber, JBool, JNull}

HookInit ==
    /\ callee = "LifecycleCommands.UnmarshalJSON"
    /\ \E data \in HookTexts : callArgs = [data |-> data]
    /\ callResult = Pending
    /\ frame = [pc |-> "decode", c |-> ZeroCommands, encoded |-> JNull, again |-> Pending]
    /\ world = <<>>

\* var c LifecycleCommands; err := c.UnmarshalJSON(data)
DecodeHook ==
    /\ callee = "LifecycleCommands.UnmarshalJSON" /\ frame.pc = "decode"
    /\ LET r == UnmarshalJSON(frame.c, callArgs.data)
       IN  /\ callResult' = Returned(r)
           /\ frame' = [frame EXCEPT !.pc = IF r.err = "" THEN "encode" ELSE "failed",
                                     !.c = r.c]
    /\ UNCHANGED <<callee, callArgs, world, outsideCall>>

\* the decoded value is written in canonical form
EncodeHook ==
    /\ callee = "LifecycleCommands.UnmarshalJSON" /\ frame.pc = "encode"
    /\ frame' = [frame EXCEPT !.pc = "decodeAgain", !.encoded = CanonicalForm(frame.c)]
    /\ UNCHANGED <<callee, callArgs, callResult, world, outsideCall>>

\* and decoded into a fresh value
DecodeHookAgain ==
    /\ callee = "LifecycleCommands.UnmarshalJSON" /\ frame.pc = "decodeAgain"
    /\ frame' = [frame EXCEPT !.pc = "done",
                              !.again = Returned(UnmarshalJSON(ZeroCommands, frame.encoded))]
    /\ UNCHANGED <<callee, callArgs, callResult, world, outsideCall>>

HookNext == DecodeHook \/ EncodeHook \/ DecodeHookAgain

(***************************************************************************)
(* stripJSONComments: the loop over the bytes of the input, one turn per   *)
(* step.  A byte is a one-character string; "a" stands for any byte that   *)
(* is none of the quote, backslash, slash, star and newline.               *)
(***************************************************************************)
MaxInputLen == 4

Quote == "\""
Backslash == "\\"
Newline == "\n"
InputBytes == {Quote, Backslash, "/", "*", Newline, "a"}
\* every input of up to MaxInputLen bytes, and those inputs behind a string that holds
\* a comment opener
StripInputs ==
    LET short == UNION {[1..n -> InputBytes] : n \in 0..MaxInputLen}
    IN  short \cup {<<Quote, "/", "*", Quote>> \o s : s \in short}

StripInit ==
    /\ callee = "stripJSONComments"
    /\ \E input \in StripInputs : callArgs = [input |-> input]
    /\ callResult = Pending
    /\ frame = [pc |-> "loop", i |-> 0, out |-> <<>>, inString |-> FALSE,
                escaped |-> FALSE, inLineComment |-> FALSE, inBlockComment |-> FALSE]
    /\ world = <<>>

\* mutant: the newline that ends a line comment is dropped with the comment
lineCommentByteDropsNewline(f, ch) ==
    IF ch = Newline THEN [f EXCEPT !.inLineComment = FALSE, !.i = @ + 1]
    ELSE [f EXCEPT !.i = @ + 1]

\* one turn of the loop inside a line comment
lineCommentByte(f, ch) ==
    IF ch = Newline
    THEN [f EXCEPT !.inLineComment = FALSE, !.out = Append(@, ch), !.i = @ + 1]
    ELSE [f EXCEPT !.i = @ + 1]

\* one turn of the loop for the byte input[i] (i counts from 0): the locals afterwards
stripByte(f, input) ==
    LET ch == input[f.i + 1]
        more == f.i + 1 < Len(input)
    IN  IF f.inLineComment THEN lineCommentByte(f, ch)
        ELSE IF f.inBlockComment
        THEN IF ch = "*" /\ more /\ input[f.i + 2] = "/"
             THEN [f EXCEPT !.inBlockComment = FALSE, !.i = @ + 2]
             ELSE [f EXCEPT !.i = @ + 1]
        ELSE IF f.inString
        THEN IF f.escaped
             THEN [f EXCEPT !.out = Append(@, ch), !.escaped = FALSE, !.i = @ + 1]
             ELSE IF ch = Backslash
             THEN [f EXCEPT !.out = Append(@, ch), !.escaped = TRUE, !.i = @ + 1]
             ELSE IF ch = Quote
             THEN [f EXCEPT !.out = Append(@, ch), !.inString = FALSE, !.i = @ + 1]
             ELSE [f EXCEPT !.out = Append(@, ch), !.i = @ + 1]
        ELSE IF ch = Quote
        THEN [f EXCEPT !.inString = TRUE, !.out = Append(@, ch), !.i = @ + 1]
        ELSE IF ch = "/" /\ more /\ input[f.i + 2] = "/"
        THEN [f EXCEPT !.inLineComment = TRUE, !.i = @ + 2]
        ELSE IF ch = "/" /\ more /\ input[f.i + 2] = "*"
        THEN [f EXCEPT !.inBlockComment = TRUE, !.i = @ + 2]
        ELSE [f EXCEPT !.out = Append(@, ch), !.i = @ + 1]

StripByte ==
    /\ callee = "stripJSONComments" /\ frame.pc = "loop"
    /\ frame.i < Len(callArgs.input)
    /\ frame' = stripByte(frame, callArgs.input)
    /\ UNCHANGED <<callee, callArgs, callResult, world, outsideCall>>

StripReturn ==
    /\ callee = "stripJSONComments" /\ frame.pc = "loop"
    /\ frame.i >= Len(callArgs.input)
    /\ callResult' = IF frame.inBlockComment
                     THEN Returned([err |-> "unterminated block comment", out |-> <<>>])
                     ELSE Returned([err |-> "", out |-> frame.out])
    /\ frame' = [frame EXCEPT !.pc = "returned"]
    /\ UNCHANGED <<callee, callArgs, world, outsideCall>>

StripNext == StripByte \/ StripReturn

(***************************************************************************)
(* featureLess on two features, and the stable sort of one commit set of   *)
(* orderFeatures with the features image tag derived from the order        *)
(***************************************************************************)
MaxCommit == 3

Str_1_0 == <<49, 46, 48>>
Str_1x == <<49, 120>>

\* the features of the model: base name, tag, user options and canonical name vary
LessTags == {Str_1, Str_1_0, Str_2, Str_10, Str_1x, Str_latest}
LessUserValues == {NoValues, Str_version :> Str_1, Str_version :> Str_2,
                   (Str_version :> Str_1) @@ (Str_color :> Str_1), Str_color :> Str_2}
LessFeature(base, tag, values, canonical) ==
    [DependencyKey |-> <<canonical, tag, values>>, BaseName |-> base, Tag |-> tag,
     UserValues |-> values, CanonicalName |-> canonical]
LessPool ==
    {LessFeature(base, tag, values, base \o Str_at \o digest) :
        base \in {Str_bar, Str_foo}, tag \in LessTags, values \in LessUserValues,
        digest \in {Str_digestFoo, Str_digestBar}}
\* features of one base name, as one round of orderFeatures may commit together
CommitPool ==
    {LessFeature(Str_foo, tag, values, Str_foo \o Str_at \o Str_digestFoo) :
        tag \in LessTags, values \in {NoValues, Str_version :> Str_1, Str_color :> Str_2}}
CommitLists ==
    {c \in UNION {[1..n -> CommitPool] : n \in 2..MaxCommit} :
        \A i, j \in DOMAIN c : i # j => c[i] # c[j]}

\* the hash input of featuresImageTag: the dependency keys in installation order
featuresImageTag(features) == [i \in DOMAIN features |-> features[i].DependencyKey]

LessInit ==
    /\ \/ /\ callee = "featureLess"
          /\ \E a \in LessPool, b \in LessPool : callArgs = [a |-> a, b |-> b]
       \/ /\ callee = "sort.SliceStable"
          /\ \E commit \in CommitLists : callArgs = [commit |-> commit]
    /\ callResult = Pending
    /\ frame = <<>>
    /\ world = <<>>

CallFeatureLess ==
    /\ callee = "featureLess" /\ ~callResult.done
    /\ callResult' = Returned(featureLess(callArgs.a, callArgs.b))
    /\ UNCHANGED <<callee, callArgs, frame, world, outsideCall>>

\* the commit set in the order the range over the remaining map gave it is sorted and
\* appended to the order; the image tag is derived from the order
SortCommit ==
    /\ callee = "sort.SliceStable" /\ ~callResult.done
    /\ \E sorted \in {SliceStable(callArgs.commit)} :
           callResult' = Returned([order |-> sorted, tag |-> featuresImageTag(sorted)])
    /\ UNCHANGED <<callee, callArgs, frame, world, outsideCall>>

LessNext == CallFeatureLess \/ SortCommit

(* ---- mergeEnvMaps as a function of its arguments and of the two range orders ---- *)
\* one loop of mergeEnvMaps: the entries of the map from in the order keys, on top of acc
RECURSIVE mergeRange(_, _, _, _, _)
mergeRange(from, keys, variables, acc, env) ==
    IF keys = <<>> THEN [err |-> "", merged |-> acc]
    ELSE LET key == Head(keys)
             expanded == expandVariables(from[key], variables, acc, env)
         IN  IF expanded.err # "" THEN [err |-> expanded.err, merged |-> NilEnvMap]
             ELSE mergeRange(from, Tail(keys), variables,
                             [k \in DOMAIN acc \cup {key} |->
                                 IF k = key THEN expanded.value ELSE acc[k]], env)

\* the base loop, then the overlay loop on what the base loop accumulated
mergeEnvMapsInOrder(base, overlay, variables, baseOrder, overlayOrder, env) ==
    LET afterBase == mergeRange(base, baseOrder, variables, <<>>, env)
    IN  IF afterBase.err # "" THEN afterBase
        ELSE mergeRange(overlay, overlayOrder, variables, afterBase.merged, env)

(***************************************************************************)
(* Specifications                                                          *)
(***************************************************************************)
StartIdle ==
    /\ pc = "off"
    /\ cfg = [mode |-> "single", variant |-> "godev", Order |-> <<>>,
              userHooks |-> [h \in Range(lifecycleOrder) |-> NilLC],
              InitializeCommand |-> NilLC, options |-> {}]
    /\ queue = <<>>
    /\ cur = Idle
    /\ calls = <<>>
    /\ engineOps = <<>>
    /\ created = FALSE
    /\ containerID = ""
    /\ ret = NoRet
    /\ lastJoin = NoJoin
    /\ firstErr = NoErr

\* no function call is modelled
CallIdle ==
    /\ callee = "none"
    /\ callArgs = <<>>
    /\ callResult = <<>>
    /\ frame = <<>>
    /\ world = <<>>

Init == StartInit /\ OrderIdle /\ ResolveIdle /\ CallIdle

Next == StartNext

Spec == Init /\ [][Next]_vars

InitOrder == OrderInit /\ StartIdle /\ ResolveIdle /\ CallIdle

SpecOrder == InitOrder /\ [][OrderNext]_vars

InitResolve == ResolveInit /\ OrderIdle /\ StartIdle /\ CallIdle

SpecResolve == InitResolve /\ [][ResolveNext]_vars

InitOptions == OptionsInit /\ StartIdle /\ OrderIdle /\ ResolveIdle

SpecOptions == InitOptions /\ [][CallResolveFeatureOptions]_vars

InitConfig == ConfigInit /\ StartIdle /\ OrderIdle /\ ResolveIdle

SpecConfig == InitConfig /\ [][ConfigNext]_vars

\* the resolver is one thread that runs until it returns
FairSpecResolve == SpecResolve /\ WF_vars(ResolveNext)

InitStop == StopInit /\ StartIdle /\ OrderIdle /\ ResolveIdle
SpecStop == InitStop /\ [][StopNext]_vars

InitLabels == LabelsInit /\ StartIdle /\ OrderIdle /\ ResolveIdle
SpecLabels == InitLabels /\ [][LabelsNext]_vars

InitCleanup == CleanupInit /\ StartIdle /\ OrderIdle /\ ResolveIdle
SpecCleanup == InitCleanup /\ [][CleanupNext]_vars

InitExtract == ExtractInit /\ StartIdle /\ OrderIdle /\ ResolveIdle
SpecExtract == InitExtract /\ [][ExtractNext]_vars

InitRequest == RequestInit /\ StartIdle /\ OrderIdle /\ ResolveIdle
SpecRequest == InitRequest /\ [][RequestNext]_vars

InitPipe == PipeInit /\ StartIdle /\ OrderIdle /\ ResolveIdle
SpecPipe == InitPipe /\ [][PipeNext]_vars
\* the goroutine is scheduled, and the consumer reads or closes (its Close is deferred)
FairSpecPipe == SpecPipe /\ WF_vars(PipeNext)

InitExpand == ExpandInit /\ StartIdle /\ OrderIdle /\ ResolveIdle
SpecExpand == InitExpand /\ [][CallExpandVariables]_vars

InitMergeEnv == MergeEnvInit /\ StartIdle /\ OrderIdle /\ ResolveIdle
SpecMergeEnv == InitMergeEnv /\ [][MergeEnvNext]_vars

InitEntrypoint == EntrypointInit /\ StartIdle /\ OrderIdle /\ ResolveIdle
SpecEntrypoint == InitEntrypoint /\ [][EntrypointNext]_vars

InitHook == HookInit /\ StartIdle /\ OrderIdle /\ ResolveIdle
SpecHook == InitHook /\ [][HookNext]_vars

InitStrip == StripInit /\ StartIdle /\ OrderIdle /\ ResolveIdle
SpecStrip == InitStrip /\ [][StripNext]_vars

InitLess == LessInit /\ StartIdle /\ OrderIdle /\ ResolveIdle
SpecLess == InitLess /\ [][LessNext]_vars

\* orderFeatures runs on: a call that can take a step takes one; the override list is
\* names the base name foo, which the plan may hold or not
FairOverrides == {<<Str_foo>>}
InitOrderFair == InitOrder /\ inOverride \in FairOverrides
FairSpecOrder == InitOrderFair /\ [][OrderNext]_vars /\ WF_vars(OrderNext)

(***************************************************************************)
(* Claims about the lifecycle engine and the start orchestrator (Spec)     *)
(***************************************************************************)
\* the canonical phase order the specification names
CanonicalRank ==
    [onCreateCommand |-> 1, updateContentCommand |-> 2, postCreateCommand |-> 3,
     postStartCommand |-> 4, postAttachCommand |-> 5]

IsPhase(hook) == hook \in DOMAIN CanonicalRank

\* the commands value a phase has for an owner, read from the configuration
CommandsOf(hook, owner) ==
    IF owner = 0 THEN cfg.userHooks[hook] ELSE cfg.Order[owner].hooks[hook]

SubsOf(commands) ==
    IF commands.nil THEN {}
    ELSE IF commands.single THEN {""}
    ELSE Range(commands.parallel)

\* every command the configuration sets for the five in-container phases
ConfiguredCmds ==
    UNION {{<<hook, owner, sub>> : sub \in SubsOf(CommandsOf(hook, owner))} :
             hook \in DOMAIN CanonicalRank, owner \in 0..Len(cfg.Order)}

HasStarted(c) == c \in DOMAIN calls
HasReturned(c) == c \in DOMAIN calls /\ calls[c].status \in {"ok", "err"}
Succeeded(c) == c \in DOMAIN calls /\ calls[c].status = "ok"

\* a step invokes the runner for command c
Starts(c) ==
    /\ c \in DOMAIN calls'
    /\ (c \notin DOMAIN calls \/ calls'[c].n > calls[c].n)

\* C1: lifecycle hooks run strictly in the canonical order: once a command of a phase
\* has been started, every configured command of every earlier phase has returned;
\* a phase nobody sets contributes no invocation.
C1_CanonicalPhaseOrder ==
    LET configured == ConfiguredCmds
    IN  \A c \in DOMAIN calls :
            IsPhase(c[1]) =>
                /\ c \in configured
                /\ \A d \in configured :
                    CanonicalRank[d[1]] < CanonicalRank[c[1]] => HasReturned(d)

\* C1 witness: a postStart or later command has started after an onCreate command ran,
\* with updateContentCommand set by nobody
C1_Witness ==
    /\ \E c \in DOMAIN calls : IsPhase(c[1]) /\ CanonicalRank[c[1]] >= 4
    /\ \E d \in ConfiguredCmds : d[1] = "onCreateCommand"
    /\ ~ \E d \in ConfiguredCmds : d[1] = "updateContentCommand"

\* C2: inside a phase the features' commands run in features.Order order and before the
\* user's command: once the user's command of a phase has been started every feature
\* command of that phase has returned, and once feature k's command has been started
\* those of the features before k have returned.
C2_FeaturesBeforeUser ==
    LET configured == ConfiguredCmds
    IN  \A c \in DOMAIN calls :
            IsPhase(c[1]) =>
                \A d \in configured :
                    (d[1] = c[1] /\ d[2] # 0 /\ (c[2] = 0 \/ d[2] < c[2])) => HasReturned(d)

\* C2 witness: the user's command of a phase has started and two features have a
\* command for the same phase
C2_Witness ==
    \E c \in DOMAIN calls :
        /\ IsPhase(c[1]) /\ c[2] = 0
        /\ \E d, e \in ConfiguredCmds :
            d[1] = c[1] /\ e[1] = c[1] /\ d[2] # 0 /\ e[2] # 0 /\ d[2] # e[2]

SameInvocation(c, d) == c[1] = d[1] /\ c[2] = d[2]

\* C3 as stated: once a command has returned an error no command at all is invoked any
\* more, and the error of the first command that failed is the one returned.
C3_NothingStartsAfterFirstError ==
    [][ /\ (\E d \in DOMAIN calls : calls[d].status = "err")
            => \A c \in DOMAIN calls' : ~Starts(c)
        /\ (ret'.set /\ firstErr' # NoErr) => ret'.err = firstErr' ]_vars

\* C3: once a hook invocation (a Single, or the group of a Parallel) has had a command
\* return an error, only commands of that same parallel group may still be invoked: no
\* command of another owner in the phase, none of a later phase; and the error returned
\* to the caller is the error of a failed command of that invocation.
C3_AbortAfterFailedInvocation ==
    [][ /\ \A c \in DOMAIN calls' :
            Starts(c) =>
                \A d \in DOMAIN calls :
                    calls[d].status = "err" => (SameInvocation(c, d) /\ c # d)
        /\ (ret'.set /\ firstErr' # NoErr) =>
            /\ ret'.err.kind = "command"
            /\ calls'[ret'.err.call].status = "err"
            /\ SameInvocation(ret'.err.call, firstErr'.call) ]_vars

\* C3 witness: two siblings of a parallel hook failed, the error returned is not the one
\* of the sibling that failed first, and a configured command was never invoked
C3_Witness ==
    /\ ret.set /\ ret.err.kind = "command"
    /\ ret.err # firstErr
    /\ \E e \in ConfiguredCmds : ~HasStarted(e)

\* C4: every sub-command of a map hook is invoked once, under "<hook>:<subName>", and a
\* spawned sub-command can start whatever the state of its siblings.
C4_ParallelStart ==
    /\ \A c \in DOMAIN calls :
        c[3] # "" => calls[c].name = <<c[1], c[3]>> /\ calls[c].n = 1
    /\ lastJoin.seen =>
        \A sub \in Range(lastJoin.subs) :
            /\ <<lastJoin.hook, lastJoin.owner, sub>> \in DOMAIN calls
            /\ calls[<<lastJoin.hook, lastJoin.owner, sub>>].n = 1
    /\ cur.st = "parallel" =>
        \A i \in DOMAIN cur.gor : cur.gor[i] = "spawned" => ENABLED SubStart(i)

\* C4 witness: all sub-commands of a map hook are running, none has returned
C4_Witness ==
    /\ cur.st = "parallel" /\ Len(cur.gor) >= 2
    /\ \A i \in DOMAIN cur.gor : cur.gor[i] = "running"

\* C5: runParallelLifecycleCommands has returned only when every sub-command had
\* returned; it returned an error exactly when a sub-command did, and that error is one of
\* the sub-commands' errors.
C5_ParallelJoin ==
    lastJoin.seen =>
        /\ \A i \in DOMAIN lastJoin.gor : lastJoin.gor[i] = "done"
        /\ \A i \in DOMAIN lastJoin.subs :
            LET c == <<lastJoin.hook, lastJoin.owner, lastJoin.subs[i]>>
            IN  /\ HasReturned(c)
                /\ (calls[c].status = "err") <=> (lastJoin.res[i] = CommandErr(c))
                /\ (calls[c].status = "ok") <=> (lastJoin.res[i] = NoErr)
        /\ (lastJoin.result # NoErr) <=> (\E i \in DOMAIN lastJoin.res : lastJoin.res[i] # NoErr)
        /\ lastJoin.result # NoErr =>
            \E i \in DOMAIN lastJoin.res : lastJoin.res[i] = lastJoin.result

\* C5 witness: a map hook has returned an error while one of its sub-commands succeeded
C5_Witness ==
    /\ lastJoin.seen /\ lastJoin.result # NoErr
    /\ \E i \in DOMAIN lastJoin.res : lastJoin.res[i] = NoErr

InitializeCmds == {<<"initializeCommand", 0, sub>> : sub \in SubsOf(cfg.InitializeCommand)}

\* C6: initializeCommand runs on the host before the engine is asked for anything: an
\* image pull or build, a container create or a compose up happens only when every
\* command of initializeCommand has returned nil, and when one fails the call returns the
\* error with no container id and nothing done.
C6_InitializeCommandFirst ==
    /\ \A c \in DOMAIN calls :
        c[1] = "initializeCommand" => c \in InitializeCmds /\ calls[c].runner = HostRunner
    /\ (engineOps # <<>> \/ created \/ containerID # "") =>
        \A d \in InitializeCmds : Succeeded(d)
    /\ (\E c \in InitializeCmds : HasStarted(c) /\ calls[c].status = "err") =>
        /\ engineOps = <<>> /\ ~created
        /\ ret.set => (ret.id = "" /\ ret.err # NoErr)

\* C6 witness: the call has returned because initializeCommand failed
C6_Witness ==
    /\ ret.set
    /\ \E c \in InitializeCmds : HasStarted(c) /\ calls[c].status = "err"

EntrypointCmds ==
    {<<"featureEntrypoint", k, "">> : k \in {j \in DOMAIN cfg.Order : cfg.Order[j].entrypoint # ""}}

ContainerStarted == "start" \in Range(engineOps) \/ "composeUp" \in Range(engineOps)

\* C7: feature entrypoints run after the container has been started and before any
\* lifecycle hook: each feature that declares one has it run once, as root, under
\* "featureEntrypoint:<id>", in installation order; a lifecycle command starts only when
\* every declared entrypoint has returned nil, so a failing entrypoint stops the remaining
\* ones and all hooks.
C7_EntrypointsBeforeHooks ==
    LET entrypoints == EntrypointCmds
    IN  /\ \A c \in DOMAIN calls :
            c[1] = "featureEntrypoint" =>
                /\ c \in entrypoints
                /\ calls[c].name = <<"featureEntrypoint", cfg.Order[c[2]].id>>
                /\ calls[c].runner = ContainerRunner("root")
                /\ calls[c].n = 1
                /\ ContainerStarted
                /\ \A d \in entrypoints : d[2] < c[2] => Succeeded(d)
        /\ \A c \in DOMAIN calls :
            IsPhase(c[1]) => \A d \in entrypoints : Succeeded(d)

\* C7 witness: an entrypoint has failed, a later feature declares an entrypoint and a
\* lifecycle command is configured
C7_Witness ==
    /\ ret.set
    /\ \E c \in EntrypointCmds :
        /\ HasStarted(c) /\ calls[c].status = "err"
        /\ \E d \in EntrypointCmds : d[2] > c[2]
    /\ ConfiguredCmds # {}

\* C8 as stated: a call that returns an error returns the id of the container exactly
\* when a container has been created.
C8_CreatedContainerIdReturned ==
    (ret.set /\ ret.err # NoErr) =>
        /\ created => ret.id = ContainerId
        /\ ~created => ret.id = ""

(***************************************************************************)
(* Claims about the feature orderer (SpecOrder)                            *)
(***************************************************************************)
\* key a stands before key b in the order built so far
Before(a, b) == \E i, j \in DOMAIN order : i < j /\ order[i] = a /\ order[j] = b

OrderSucceeded == opc = "done" /\ orderRet.kind = "ok"

\* C9: the order is a linear extension of dependsOn and installsAfter: every feature of
\* the order stands after each feature it depends on and after each feature of the list
\* whose base name is among its installsAfter ids, whatever the override list says; a
\* successful call has ordered every feature of the list.
C9_LinearExtension ==
    /\ \A i \in DOMAIN inFeatures :
        LET f == inFeatures[i]
        IN  f.DependencyKey \in Range(order) =>
                /\ \A dep \in f.DependsOnKeys : Before(dep, f.DependencyKey)
                /\ \A j \in DOMAIN inFeatures :
                    inFeatures[j].BaseName \in f.InstallsAfterIDs
                        => Before(inFeatures[j].DependencyKey, f.DependencyKey)
    /\ OrderSucceeded =>
        \A i \in DOMAIN inFeatures : inFeatures[i].DependencyKey \in Range(order)

\* C9 witness: a call succeeded on a list with a dependsOn and a matched installsAfter
\* declaration, where the override list names a feature that has a prerequisite
C9_Witness ==
    /\ OrderSucceeded
    /\ \E i \in DOMAIN inFeatures : inFeatures[i].DependsOnKeys # {}
    /\ \E i \in DOMAIN inFeatures : inFeatures[i].InstallsAfterKeys # {}
    /\ \E i \in DOMAIN inFeatures :
        /\ inFeatures[i].DependsOnKeys # {} \/ inFeatures[i].InstallsAfterKeys # {}
        /\ inFeatures[i].BaseName \in DOMAIN computeOverridePriority(inOverride)

\* the base names of a set of features, in ascending order
RECURSIVE AscendingBaseNames(_)
AscendingBaseNames(F) ==
    IF F = {} THEN <<>>
    ELSE LET m == CHOOSE f \in F : \A g \in F : ~StrLess(g.BaseName, f.BaseName)
         IN  <<m.BaseName>> \o AscendingBaseNames(F \ {m})

\* the outcome as a function of the SET of features and the override list only: rounds
\* of the features whose prerequisites are installed, the top override priority of a
\* round first, base names ascending inside a round
RECURSIVE ReferenceRounds(_, _, _, _)
ReferenceRounds(F, left, installed, prio) ==
    IF left = {}
    THEN [kind |-> IF \A id \in DOMAIN prio : \E f \in F : f.BaseName = id
                   THEN "ok" ELSE "unknownOverride",
          names |-> <<>>]
    ELSE LET ready == {f \in left :
                        /\ f.DependsOnKeys \subseteq installed
                        /\ \A g \in F : g.BaseName \in f.InstallsAfterIDs
                                            => g.DependencyKey \in installed}
             top == Max({0} \cup {PriorityOf(prio, f.BaseName) : f \in ready})
             commit == {f \in ready : PriorityOf(prio, f.BaseName) = top}
         IN  IF ready = {} THEN [kind |-> "cycle", names |-> <<>>]
             ELSE LET rest == ReferenceRounds(F, left \ commit,
                                              installed \cup {f.DependencyKey : f \in commit}, prio)
                  IN  [kind |-> rest.kind, names |-> AscendingBaseNames(commit) \o rest.names]

\* an empty list is answered at once, the override list unread
ReferenceOutcome(F, ids) ==
    IF F = {} THEN [kind |-> "ok", names |-> <<>>]
    ELSE ReferenceRounds(F, F, {}, computeOverridePriority(ids))

\* what identifies a feature of the list, without what orderFeatures adds to it
FeatureSet ==
    {[inFeatures[i] EXCEPT !.InstallsAfterKeys = {}] : i \in DOMAIN inFeatures}

\* C10: the base-name sequence of the returned order is a function of the set of resolved
\* features and of the override list alone: whatever the order of the input list and
\* whatever the iteration order of the remaining map, a call ends as the reference does
\* and a successful call returns the reference's base names.
C10_BaseNamesDeterministic ==
    opc = "done" =>
        \E ref \in {ReferenceOutcome(FeatureSet, inOverride)} :
            /\ orderRet.kind = ref.kind
            /\ orderRet.kind = "ok" =>
                [i \in DOMAIN order |-> nodes(order[i]).BaseName] = ref.names

\* C10 witness: a call succeeded on three features, two of them of one base name, given
\* in a list that is not in the returned order, with an override list
C10_Witness ==
    /\ OrderSucceeded
    /\ Len(order) = 3
    /\ inOverride # <<>>
    /\ \E i, j \in DOMAIN inFeatures : i # j /\ inFeatures[i].BaseName = inFeatures[j].BaseName
    /\ [i \in DOMAIN inFeatures |-> inFeatures[i].DependencyKey] # order

\* the place of a base name in the override list: 1 for the first entry, and one more
\* than the length of the list for a name the list does not hold
OverridePlace(name) ==
    IF \E i \in DOMAIN inOverride : normalizeFeatureID(inOverride[i]) = name
    THEN CHOOSE i \in DOMAIN inOverride :
            /\ normalizeFeatureID(inOverride[i]) = name
            /\ \A j \in 1..(i - 1) : normalizeFeatureID(inOverride[j]) # name
    ELSE Len(inOverride) + 1

\* the features not yet ordered whose prerequisites all stand in the order
ReadyFeatures ==
    {f \in Range(inFeatures) :
        /\ f.DependencyKey \notin Range(order)
        /\ f.DependsOnKeys \subseteq Range(order)
        /\ \A g \in Range(inFeatures) :
            g.BaseName \in f.InstallsAfterIDs => g.DependencyKey \in Range(order)}

\* the list of the example: foo, bar{dependsOn foo}, baz{installsAfter foo}
IsFooBarBaz ==
    {<<f.DependencyKey, f.DependsOnKeys, f.InstallsAfterIDs>> : f \in Range(inFeatures)}
        = { <<"foo2-key", {}, {}>>, <<"bar-key", {"foo2-key"}, {}>>,
            <<"baz-key", {}, {Str_foo}>> }

FooBarBazOrder ==
    (IsFooBarBaz /\ opc = "done") =>
        /\ inOverride = <<>> => order = <<"foo2-key", "bar-key", "baz-key">>
        /\ inOverride = <<Str_Baz>> => order = <<"foo2-key", "baz-key", "bar-key">>

\* C11: with a list of distinct override entries (earlier entry, higher priority, an
\* unlisted feature lowest) every round commits, of the features whose prerequisites are
\* all installed, exactly those whose base name has the best place in the override list
\* among them, the others wait; so foo, bar{dependsOn foo}, baz{installsAfter foo} comes
\* out foo, bar, baz without override and foo, baz, bar with the override [baz].
C11_RoundCommitsTopPriority ==
    [][ /\ (opc = "loop" /\ order' # order) =>
            \E ready \in {ReadyFeatures} :
                { order'[i] : i \in (DOMAIN order') \ (DOMAIN order) }
                    = { f.DependencyKey : f \in
                          {r \in ready : \A q \in ready :
                              OverridePlace(r.BaseName) <= OverridePlace(q.BaseName)} }
        /\ FooBarBazOrder' ]_vars

\* C11 witness: the example list with the override [Baz] came out foo, baz, bar
C11_Witness ==
    /\ IsFooBarBaz /\ OrderSucceeded
    /\ inOverride = <<Str_Baz>>
    /\ order = <<"foo2-key", "baz-key", "bar-key">>

\* C12 as stated: whenever the override list holds an entry whose normalized name is the
\* base name of no feature of the list, the call ends in the unknown-feature error with
\* no order; and that error is raised for no other reason (an installsAfter id that names
\* no feature does not raise it).
C12_UnknownOverrideRejected ==
    opc = "done" =>
        \E known \in {{inFeatures[i].BaseName : i \in DOMAIN inFeatures}} :
            /\ (\E i \in DOMAIN inOverride : normalizeFeatureID(inOverride[i]) \notin known)
                => (orderRet.kind = "unknownOverride" /\ order = <<>>)
            /\ orderRet.kind = "unknownOverride"
                => \E i \in DOMAIN inOverride : normalizeFeatureID(inOverride[i]) \notin known

(***************************************************************************)
(* Claims about the feature resolver (SpecResolve, FairSpecResolve)        *)
(***************************************************************************)
\* the request keys of the resolveRequest calls below the innermost one
StackKeys == {rstack[i].reqKey : i \in 1..(Len(rstack) - 1)}

\* the request key of the call that is being entered
EnteringKey == RequestKeys[Top.id, Top.options].key

\* what a request (id, options) installs when nothing fails: source, digest and resolved
\* option values; <<>> when the request cannot be resolved
Unit(req) ==
    LET reference == parseFeatureReference(req[1])
        digest == IF reference.ok /\ reference.Source = "oci"
                  THEN fetchOCIFeature(reference.Registry, reference.Repository,
                                       reference.Reference, TRUE)
                  ELSE <<>>
    IN  IF digest = <<>> THEN <<>>
        ELSE LET defs == MetadataOptions[digest]
                 options == resolveFeatureOptions(defs, req[2], SortStrings(DOMAIN defs))
             IN  IF options.err # "none" THEN <<>>
                 ELSE <<reference.Source, digest, options.Values>>

\* the requests the metadata of a request's feature declares in dependsOn
DeclaredDeps(req) ==
    IF Unit(req) = <<>> THEN {}
    ELSE {<<d, rcfg.DependsOn[Unit(req)[2]][d]>> : d \in DOMAIN rcfg.DependsOn[Unit(req)[2]]}

RECURSIVE Closure(_)
Closure(S) ==
    LET T == S \cup UNION {DeclaredDeps(r) : r \in S}
    IN  IF T = S THEN S ELSE Closure(T)

\* every request the configuration leads to
ReachableRequests == Closure({<<id, rcfg.Features[id]>> : id \in DOMAIN rcfg.Features})

\* the configuration leads to a feature that, following dependsOn, depends on itself
DependsOnCycle ==
    \E r \in ReachableRequests :
        /\ Unit(r) # <<>>
        /\ \E d \in Closure(DeclaredDeps(r)) : Unit(d) = Unit(r)

\* C13: a request whose key is on the resolve stack ends the call in the cycle error; a
\* configuration whose features depend on themselves never ends in a plan (the error comes
\* from resolveRequest or from orderFeatures); and every call returns.
C13_CyclesAreErrorsAndResolutionEnds ==
    /\ [][ (rpc = "loop" /\ rstack # <<>> /\ Top.stage = "enter" /\ EnteringKey \in StackKeys)
              => (rpc' = "done" /\ rret'.kind = "cycle" /\ opc' = "off") ]_vars
    /\ []((rpc = "done" /\ DependsOnCycle) => rret.kind \notin {"ok", "nil"})
    /\ <>(rpc = "done")

\* C13 witness: a call ended by the cycle check of resolveRequest, two calls deep
C13_Witness ==
    /\ rpc = "done" /\ rret.kind = "cycle" /\ opc = "off"
    /\ DependsOnCycle
    /\ Len(resolverFeatures) >= 2

\* a call ended by the cycle check of orderFeatures: the cycle was closed through a
\* second request key of a feature on the stack
OrderingTimeCycle ==
    /\ rpc = "done" /\ rret.kind = "cycle" /\ opc = "done" /\ orderRet.kind = "cycle"
    /\ DependsOnCycle

\* source, digest and resolved option values of a resolved feature
Identity(f) == <<f.Source, f.Digest, f.Values>>

\* the feature of r.features with the dependency key
PlanFeature(key) == CHOOSE f \in Range(resolverFeatures) : f.DependencyKey = key

\* C14: r.features never holds two entries with one dependency key, and two entries have
\* one key exactly when they have one source, digest and resolved values; a plan, when the
\* call returns one, lists each key once and holds exactly one feature for every (source,
\* digest, values) the configuration leads to - so requests that agree on the three share
\* a feature, and requests for one base name that differ in the resolved values each
\* have their own.
C14_OneEntryPerDependencyKey ==
    /\ \A i, j \in DOMAIN resolverFeatures :
          /\ (i # j => resolverFeatures[i].DependencyKey # resolverFeatures[j].DependencyKey)
          /\ (resolverFeatures[i].DependencyKey = resolverFeatures[j].DependencyKey
                <=> Identity(resolverFeatures[i]) = Identity(resolverFeatures[j]))
    /\ (rpc = "done" /\ rret.kind = "ok") =>
          \E units \in {{Unit(r) : r \in ReachableRequests}} :
              /\ \A i, j \in DOMAIN rret.Order : i # j => rret.Order[i] # rret.Order[j]
              /\ Range(rret.Order) \subseteq {f.DependencyKey : f \in Range(resolverFeatures)}
              /\ {Identity(PlanFeature(key)) : key \in Range(rret.Order)} = units
              /\ Len(rret.Order) = Cardinality(units)

\* C14 witness: a plan with two features of one base name, built from more fetches than
\* it has features (a request was answered by a feature already stored)
C14_Witness ==
    /\ rpc = "done" /\ rret.kind = "ok"
    /\ \E i, j \in DOMAIN resolverFeatures :
          /\ resolverFeatures[i].BaseName = resolverFeatures[j].BaseName
          /\ resolverFeatures[i].DependencyKey # resolverFeatures[j].DependencyKey
          /\ resolverFeatures[i].DependencyKey \in Range(rret.Order)
          /\ resolverFeatures[j].DependencyKey \in Range(rret.Order)
    /\ Len(fetched) > Len(rret.Order)

\* C15 as stated: a request key resolved earlier in the call is answered from the cache,
\* so fetchAndParse never fetches a feature for one request key twice.
C15_RequestKeyFetchedOnce ==
    \A i, j \in DOMAIN fetched : i # j => fetched[i] # fetched[j]

(***************************************************************************)
(* Claims about resolveFeatureOptions (SpecOptions)                        *)
(***************************************************************************)
\* the string form of an option value: a string as it is, a boolean as true or false
StringForm(v) == IF v.kind = "string" THEN v.s ELSE IF v.b THEN Str_true ELSE Str_false

\* the value has the declared type
OfType(v, type) == (type = "string" /\ v.kind = "string") \/ (type = "boolean" /\ v.kind = "bool")

\* C16: when resolveFeatureOptions succeeds, values has exactly the declared names, each
\* with the string form of the user's value when the user gave one and of the default
\* otherwise, and userValues is exactly the user's entries in string form; and the call
\* fails on a user key that is not declared, on any user value when nothing is declared,
\* on a user value or a default that has not the declared type, and on an empty type.
C16_ResolvedOptionsContract ==
    (callee = "resolveFeatureOptions" /\ callResult.done) =>
        LET defs == callArgs.defs
            user == callArgs.user
            res == callResult.value
        IN  /\ res.err = "none" =>
                /\ DOMAIN res.Values = DOMAIN defs
                /\ \A n \in DOMAIN defs :
                      res.Values[n] = IF n \in DOMAIN user THEN StringForm(user[n])
                                      ELSE StringForm(defs[n].Default)
                /\ DOMAIN res.UserValues = DOMAIN user
                /\ \A n \in DOMAIN user :
                      res.UserValues[n] = StringForm(user[n]) /\ res.Values[n] = res.UserValues[n]
            /\ ( \/ \E n \in DOMAIN user : n \notin DOMAIN defs
                 \/ (DOMAIN user # {} /\ DOMAIN defs = {})
                 \/ \E n \in DOMAIN user \cap DOMAIN defs : ~OfType(user[n], defs[n].Type)
                 \/ \E n \in DOMAIN defs : ~OfType(defs[n].Default, defs[n].Type)
                 \/ \E n \in DOMAIN defs : defs[n].Type = "" )
               => res.err # "none"

\* C16 witness: a successful call with two declared options, one given by the user as a
\* boolean and one left to its string default
C16_Witness ==
    /\ callee = "resolveFeatureOptions" /\ callResult.done
    /\ callResult.value.err = "none"
    /\ callArgs.user = (Str_debug :> BoolOption(FALSE))
    /\ DOMAIN callArgs.defs = {Str_version, Str_debug}
    /\ callResult.value.Values = (Str_debug :> Str_false) @@ (Str_version :> Str_1)
    /\ callResult.value.UserValues = (Str_debug :> Str_false)

(***************************************************************************)
(* Claims about MergeConfig and validateConfig (SpecConfig)                *)
(***************************************************************************)
\* the configuration that sets nothing, as a value or as a nil pointer
IsEmptyConfig(c) == Plain(c) \in {Plain(ZeroConfig), Plain(NilConfig)}

MergeReturned == callee = "MergeConfig" /\ callResult.done

\* C17 as stated: merging any configuration a with the empty one, on either side, returns
\* a configuration deep-equal to a, and no call of MergeConfig changes its arguments.
C17_MergeIdentityNoMutation ==
    /\ [][(callee = "MergeConfig" /\ ~callResult.done) => callArgs' = callArgs]_vars
    /\ [](MergeReturned =>
            /\ (IsEmptyConfig(callArgs.overlay) /\ ~callArgs.base.nil)
                  => Plain(callResult.value) = Plain(callArgs.base)
            /\ (IsEmptyConfig(callArgs.base) /\ ~callArgs.overlay.nil)
                  => Plain(callResult.value) = Plain(callArgs.overlay))

\* C18 as stated: init and overrideCommand of the merged configuration are the overlay's
\* when the overlay sets them (so an overlay false replaces a base true) and the base's
\* otherwise; privileged is the disjunction of the two.
C18_NullableBooleansOverlayWins ==
    (MergeReturned /\ ~callArgs.base.nil /\ ~callArgs.overlay.nil) =>
        LET base == callArgs.base
            overlay == callArgs.overlay
            merged == callResult.value
        IN  /\ merged.Init = IF ~overlay.Init.nil THEN overlay.Init ELSE base.Init
            /\ merged.OverrideCommand =
                  IF ~overlay.OverrideCommand.nil THEN overlay.OverrideCommand
                  ELSE base.OverrideCommand
            /\ merged.Privileged = (base.Privileged \/ overlay.Privileged)

\* how many of image, build and compose (dockerComposeFile with service) are present
PresentSources(c) ==
    (IF c.Image # "" THEN 1 ELSE 0) + (IF ~c.Build.nil THEN 1 ELSE 0)
    + (IF Len(c.DockerComposeFile.elems) > 0 /\ c.Service # "" THEN 1 ELSE 0)

\* C19 as stated: validateConfig accepts only a configuration with exactly one of image,
\* build and compose; it rejects none of them, image with build, compose with image or
\* build, and a dockerComposeFile without service or a service without dockerComposeFile.
C19_ExactlyOneSource ==
    (callee = "validateConfig" /\ callResult.done) =>
        LET c == callArgs.config
            accepted == callResult.value = ""
        IN  /\ accepted => PresentSources(c) = 1
            /\ (c.Image # "" /\ ~c.Build.nil) => ~accepted
            /\ (Len(c.DockerComposeFile.elems) > 0) # (c.Service # "") => ~accepted

(***************************************************************************)
(* Claims about compose-mode start options (Spec)                          *)
(***************************************************************************)
\* the call asks for an override that compose cannot express
RefusedOverrideRequested == cfg.mode = "compose" /\ cfg.options # {}

\* C20: a compose-mode call that asks for any of extraPublish, extraMounts, runArgs,
\* network, workdir or resource limits never gets to resolving features, to
\* initializeCommand or to compose (no command runs, no engine operation is made), and
\* it returns an error and no container id.
C20_ComposeRefusesOverrides ==
    RefusedOverrideRequested =>
        /\ pc \in {"load", "composeOptions", "done"}
        /\ calls = <<>> /\ engineOps = <<>> /\ ~created
        /\ pc = "done" => (ret.set /\ ret.err # NoErr /\ ret.id = "")

C20_Witness ==
    /\ RefusedOverrideRequested
    /\ pc = "done" /\ ret.err = StepErr("composeOptions") /\ ret.id = ""
    /\ calls = <<>> /\ engineOps = <<>>

(***************************************************************************)
(* Claims about StopDevcontainer and RemoveDevcontainer (SpecStop)         *)
(***************************************************************************)
StopCallReturnedNil ==
    /\ callee \in {"StopDevcontainer", "RemoveDevcontainer"}
    /\ callResult = Returned("")

\* the devcontainer.config_path label of the container names a compose configuration
LabelNamesCompose ==
    LET label == world.containers[callArgs.containerID].label
    IN  label # NoLabel /\ world.files[label] = "compose"

\* the containers the call is to act on: the services of the compose project, or the
\* container alone
DispatchTargets ==
    IF LabelNamesCompose
    THEN {c \in ContainerIds :
            world.containers[c].project =
                resolveComposeProjectName(world.containers[callArgs.containerID].label)}
    ELSE {callArgs.containerID}

\* C21: StopDevcontainer and RemoveDevcontainer dispatch on the devcontainer.config_path
\* label: when it names a compose configuration a successful call has run compose stop
\* (resp. down) on the project, so every service container of the project is stopped
\* (resp. removed with its volumes) and no other container is touched; for any other
\* container the call has stopped (resp. force-removed with its volumes) that container
\* and no other.
C21_StopRemoveDispatch ==
    StopCallReturnedNil =>
        /\ \A c \in ContainerIds :
            /\ world.containers[c].state =
                  IF c \notin DispatchTargets THEN "running"
                  ELSE IF callee = "StopDevcontainer" THEN "stopped" ELSE "removed"
            /\ world.containers[c].volumes =
                  ~(c \in DispatchTargets /\ callee = "RemoveDevcontainer")
        /\ Len(world.commands) = 1
        /\ world.commands[1][1] = IF LabelNamesCompose THEN "compose" ELSE "engine"
        /\ world.commands[1][3] =
              IF callee = "StopDevcontainer" THEN "stop"
              ELSE IF LabelNamesCompose THEN "down" ELSE "remove"

C21_Witness ==
    /\ StopCallReturnedNil /\ callee = "RemoveDevcontainer" /\ LabelNamesCompose
    /\ Cardinality(DispatchTargets) = 2
    /\ \A c \in ContainerIds : world.containers[c].state = "removed" <=> c \in DispatchTargets

(***************************************************************************)
(* Claims about container labels (SpecLabels)                              *)
(***************************************************************************)
\* the absolute path of the configuration the call loads
ResolvedConfigPath ==
    IF callArgs.ConfigPath # <<>>
    THEN (IF IsAbs(callArgs.ConfigPath) THEN <<>> ELSE world.cwd) \o callArgs.ConfigPath
    ELSE IF (world.cwd \o <<".devcontainer", "devcontainer.json">>) \in world.files
         THEN world.cwd \o <<".devcontainer", "devcontainer.json">>
         ELSE world.cwd \o <<"devcontainer.json">>

\* a path that is absolute and has no "." or ".." element left
IsCleanAbs(p) ==
    /\ IsAbs(p)
    /\ \A i \in 2..Len(p) : p[i] \notin {".", "..", "/", ""}

\* C22: every container a start call creates (the container in single-container mode,
\* the primary service in compose mode) carries devcontainer.config_path = the resolved
\* absolute config path, whatever labels the user, a --label run argument or the compose
\* service supply under the same key.
C22_ConfigPathLabelAlwaysSet ==
    callee = "StartDevcontainer" =>
        \A c \in world.containers :
            /\ ConfigPathLabel \in DOMAIN c.labels
            /\ c.labels[ConfigPathLabel] = frame.configPath
            /\ IsCleanAbs(frame.configPath)
            /\ frame.configPath = Clean(ResolvedConfigPath)
            /\ \A k \in DOMAIN callArgs.Labels \ {ConfigPathLabel} : k \in DOMAIN c.labels

C22_Witness ==
    /\ callee = "StartDevcontainer" /\ ~callArgs.compose
    /\ ConfigPathLabel \in DOMAIN callArgs.Labels
    /\ ConfigPathLabel \in DOMAIN callArgs.runArgLabels
    /\ ~IsAbs(callArgs.ConfigPath) /\ callArgs.ConfigPath # <<>>
    /\ \E c \in world.containers :
        c.labels[ConfigPathLabel] = <<"/", "home", "p", "devcontainer.json">>

(***************************************************************************)
(* Claims about temporary resources (SpecCleanup)                          *)
(***************************************************************************)
\* C23 as stated: when StartDevcontainer or BuildImageFromDevcontainer has returned, with
\* or without an error, no temporary resource the call created is left: the feature
\* extraction directories, the features build context, the tar pipes, the engine client
\* and the compose override file are all released.
C23_TempResourcesReleased ==
    (callee \in {"StartDevcontainer", "BuildImageFromDevcontainer"} /\ callResult.done)
        => world.live = {}

(***************************************************************************)
(* Claims about extractFeatureArchive (SpecExtract)                        *)
(***************************************************************************)
\* C24 as stated: whatever the archive, every file, directory and symlink that
\* extractFeatureArchive creates or writes lies under its extraction root (entries with
\* "..", absolute names or a path through a symlink of the same archive land inside the
\* root or make the call fail).
C24_ExtractionStaysInRoot ==
    callee = "extractFeatureArchive" =>
        \A p \in world.touched : HasPrefix(p, ExtractRoot)

(***************************************************************************)
(* Claims about registryClient.doRequest (SpecRequest)                     *)
(***************************************************************************)
\* the requests the registry received
SentToRegistry == SelectSeq(world.sent, LAMBDA r : r.to = "registry")

\* the first answer is a 401 whose challenge yields a token
TokenObtained ==
    /\ ~world.first.err /\ world.first.status = 401
    /\ world.first.challenge # NoChallenge
    /\ world.first.challenge.scheme = "Bearer" /\ world.first.challenge.realm # ""
    /\ world.token = "token"

\* C25: doRequest sends the request at most twice.  On a 401 with a bearer challenge for
\* which a token is obtained it retries exactly once, with the token, and returns what the
\* retry gave (a second 401 included).  On a 401 without challenge, or when no token can
\* be obtained, it returns the original 401 response with a nil error and does not retry.
C25_OneAuthenticatedRetry ==
    callee = "doRequest" =>
        /\ Len(SentToRegistry) <= 2
        /\ callResult.done =>
            IF TokenObtained
            THEN /\ Len(SentToRegistry) = 2
                 /\ SentToRegistry[2].authorization = "Bearer t0k"
                 /\ callResult.value = IF world.retry.err THEN [resp |-> <<>>, err |-> TRUE]
                                       ELSE [resp |-> world.retry, err |-> FALSE]
            ELSE /\ Len(SentToRegistry) = 1
                 /\ callResult.value = IF world.first.err THEN [resp |-> <<>>, err |-> TRUE]
                                       ELSE [resp |-> world.first, err |-> FALSE]

C25_Witness ==
    /\ callee = "doRequest" /\ callResult.done /\ TokenObtained
    /\ Len(SentToRegistry) = 2
    /\ callResult.value.resp = world.retry /\ world.retry.status = 401

(***************************************************************************)
(* Claims about tarDirectory (FairSpecPipe)                                *)
(***************************************************************************)
\* the walk itself fails (an entry cannot be read), whatever the consumer does
ProducingFails == callArgs.fail.at # 0

\* C26: the producer goroutine of tarDirectory always terminates, and when it has, the
\* write end of the pipe is closed.  A consumer that reads to the end sees io.EOF only
\* after the complete archive, and the walk error when producing failed.  The producer
\* also terminates when the consumer closes the read end early.
C26_ProducerTerminatesAndCloses ==
    /\ [](callee = "tarDirectory" =>
            /\ frame.pc = "exited" => (world.wclosed # "open" /\ world.pending = NoChunk)
            /\ world.saw = "EOF" =>
                  (~ProducingFails /\ world.received = ArchiveChunks(callArgs.entries, 1))
            /\ (world.saw # "" /\ ProducingFails) => world.saw = "walk error")
    /\ <>(callee = "tarDirectory" /\ frame.pc = "exited")

C26_Witness ==
    /\ callee = "tarDirectory" /\ frame.pc = "exited"
    /\ world.rclosed /\ frame.walkErr = "io.ErrClosedPipe"
    /\ Len(world.received) = 1 /\ Len(callArgs.entries) = 2

(***************************************************************************)
(* Claims about expandVariables (SpecExpand)                               *)
(***************************************************************************)
\* the process environment value of a name; an empty value counts as none
EnvValue(name) == IF name \in DOMAIN world.env THEN world.env[name] ELSE EmptyString

Unsupported == <<"unsupported variable">>

\* what the precedence rules give for ${NAME}, ${localEnv:NAME[:default]} and
\* ${containerEnv:NAME}; Unsupported when no rule gives a value
ByPrecedence(t) ==
    IF t.kind = "localEnv"
    THEN IF EnvValue(t.name) # EmptyString THEN EnvValue(t.name)
         ELSE IF t.hasDefault THEN t.default ELSE EmptyString
    ELSE IF t.kind = "containerEnv"
    THEN IF t.name \in DOMAIN callArgs.containerEnv THEN callArgs.containerEnv[t.name]
         ELSE EnvValue(t.name)
    ELSE IF t.kind = "text" THEN t.name
    ELSE IF t.name \in DOMAIN callArgs.vars THEN callArgs.vars[t.name]
    ELSE IF t.name \in DOMAIN callArgs.containerEnv THEN callArgs.containerEnv[t.name]
    ELSE IF EnvValue(t.name) # EmptyString THEN EnvValue(t.name)
    ELSE Unsupported

\* the references of the claim, a text between them, and how each is written
Reference(kind, name, hasDefault, default) ==
    [kind |-> kind, name |-> name, hasDefault |-> hasDefault, default |-> default]
TokenReferences ==
    {Reference("", n, FALSE, <<>>) : n \in EnvNames}
    \cup {Reference("localEnv", n, FALSE, <<>>) : n \in EnvNames}
    \cup {Reference("localEnv", <<"A">>, TRUE, <<"dflt">>),
          Reference("localEnv", <<"B">>, TRUE, <<"d", ":", "e">>)}
    \cup {Reference("containerEnv", n, FALSE, <<>>) : n \in EnvNames}
    \cup {Reference("text", <<"text">>, FALSE, <<>>)}
Written(t) ==
    IF t.kind = "text" THEN t.name
    ELSE <<"$", "{">> \o (IF t.kind = "" THEN <<>> ELSE <<t.kind, ":">>) \o t.name
         \o (IF t.hasDefault THEN <<":">> \o t.default ELSE <<>>) \o <<"}">>

\* the references and texts an input is written with, one after the other; a last part
\* of kind "other" when the input goes on with something else
RECURSIVE WrittenParts(_)
WrittenParts(s) ==
    IF s = <<>> THEN <<>>
    ELSE LET ts == {t \in TokenReferences : HasPrefix(s, Written(t))}
         IN  IF ts = {} THEN <<Reference("other", s, FALSE, <<>>)>>
             ELSE LET t == CHOOSE u \in ts : TRUE
                  IN  <<t>> \o WrittenParts(SubSeq(s, Len(Written(t)) + 1, Len(s)))

ExpandReturned == callee = "expandVariables" /\ callResult.done

\* C28: every ${token} is resolved by precedence -- localEnv:NAME[:default] gives the
\* process env value, else the default, else ""; containerEnv:NAME gives the containerEnv
\* map value, else the process env value; a bare NAME gives the variables map value, else
\* the containerEnv map value, else the process env value, else the whole expansion fails
\* with "unsupported variable" and the returned string is empty, not partially expanded
C28_ExpandByPrecedence ==
    ExpandReturned =>
        LET ts == WrittenParts(callArgs.input)
        IN  (\A i \in DOMAIN ts : ts[i].kind # "other") =>
                IF \E i \in DOMAIN ts : ByPrecedence(ts[i]) = Unsupported
                THEN /\ callResult.value.err = "unsupported variable"
                     /\ callResult.value.value = EmptyString
                ELSE /\ callResult.value.err = ""
                     /\ callResult.value.value
                            = FlattenSeq([i \in DOMAIN ts |-> ByPrecedence(ts[i])])

\* a bare name that all three sources hold was resolved from the variables map, after
\* a localEnv reference fell back to its default
C28_Witness ==
    /\ ExpandReturned
    /\ callArgs.input = <<"$", "{", "localEnv", ":", "B", ":", "d", ":", "e", "}",
                          "$", "{", "A", "}">>
    /\ <<"A">> \in DOMAIN callArgs.vars /\ <<"A">> \in DOMAIN callArgs.containerEnv
    /\ <<"A">> \in DOMAIN world.env
    /\ callArgs.vars[<<"A">>] = <<"var">>
    /\ callResult.value = [err |-> "", value |-> <<"d", ":", "e", "var">>]

(***************************************************************************)
(* Claims about mergeEnvMaps (SpecMergeEnv)                                *)
(***************************************************************************)
MergeEnvReturned == callee = "mergeEnvMaps" /\ callResult.done

\* the expanded value the loop stored for the entry key of a source map
ExpandedOf(source, key) ==
    LET i == CHOOSE j \in DOMAIN frame.ranged :
                 frame.ranged[j].source = source /\ frame.ranged[j].key = key
    IN  frame.ranged[i].expanded

\* the overlay keys whose value is a reference to the key b of the merged map
ReferencesTo(b) ==
    {k \in DOMAIN callArgs.overlay :
        callArgs.overlay[k] = <<"$", "{", "containerEnv", ":">> \o b \o <<"}">>}

\* C29: all base entries are processed before any overlay entry, each value expanded
\* against the entries accumulated so far; in the returned map an overlay value that
\* references a base key holds that base entry's expanded value, an overlay key holds the
\* overlay's value whatever the base had, and an expansion error returns no map
C29_MergeBaseThenOverlay ==
    /\ callee = "mergeEnvMaps" =>
          \A i, j \in DOMAIN frame.ranged :
              frame.ranged[i].source = "overlay" /\ frame.ranged[j].source = "base" => j < i
    /\ MergeEnvReturned /\ callResult.value.err = "" =>
          /\ DOMAIN callResult.value.merged = DOMAIN callArgs.base \cup DOMAIN callArgs.overlay
          /\ \A k \in DOMAIN callArgs.overlay :
                 callResult.value.merged[k] = ExpandedOf("overlay", k)
          /\ \A b \in DOMAIN callArgs.base : \A k \in ReferencesTo(b) :
                 callResult.value.merged[k] = ExpandedOf("base", b)
    /\ MergeEnvReturned /\ callResult.value.err # "" => callResult.value.merged = NilEnvMap

(***************************************************************************)
(* Claims about the entrypoint check of buildFeaturesImage (SpecEntrypoint) *)
(***************************************************************************)
\* the directory assigned to the feature at 1-based position n
AssignedImageDir(n) ==
    featureImageBaseDir \o <<"/">> \o TwoDigits(n) \o <<"-">>
        \o sanitizeName(callArgs.features[n].id)

\* where the declared entrypoint of that feature resolves to once its variables are
\* expanded: a relative entrypoint against the assigned directory; "" when none is declared
ResolvedEntrypoint(n) ==
    LET expanded == expandVariables(callArgs.features[n].entrypoint, callArgs.vars,
                                    <<>>, <<>>)
    IN  IF expanded.err # "" THEN expanded
        ELSE IF expanded.value = EmptyString THEN expanded
        ELSE IF pathIsAbs(expanded.value)
        THEN [err |-> "", value |-> pathClean(expanded.value)]
        ELSE [err |-> "",
              value |-> pathClean(AssignedImageDir(n) \o <<"/">> \o expanded.value)]

\* p is the directory dir or a path below it
InsideDir(p, dir) == p = dir \/ HasPrefix(p, dir \o <<"/">>)

\* C27: buildFeaturesImage fails for any feature whose declared entrypoint, after variable
\* expansion, does not resolve to a path inside the feature's assigned image directory
\* /usr/local/share/devcontainer/features/<NN>-<id>, a relative entrypoint being resolved
\* against that directory and NN being the feature's 1-based position: a feature the loop
\* has passed has no entrypoint or one that resolves inside its directory
C27_EntrypointInsideImageDir ==
    callee = "buildFeaturesImage" =>
        \A n \in 1..frame.idx :
            callArgs.features[n].entrypoint # EmptyString =>
                /\ ResolvedEntrypoint(n).err = ""
                /\ InsideDir(ResolvedEntrypoint(n).value, AssignedImageDir(n))

(***************************************************************************)
(* Claims about decoding a lifecycle hook (SpecHook)                       *)
(***************************************************************************)
HookDecoded == callee = "LifecycleCommands.UnmarshalJSON" /\ callResult.done

\* a JSON array all of whose elements are strings, and the strings
IsArrayOfStrings(v) == v.kind = "array" /\ \A i \in DOMAIN v.items : v.items[i].kind = "string"
StringsOf(v) == [i \in DOMAIN v.items |-> v.items[i].str]

\* a member value that denotes a command, and the command
IsCommandText(v) == v.kind = "string" \/ IsArrayOfStrings(v)
CommandOf(v) == IF v.kind = "string" THEN ShellCommand(v.str) ELSE ExecCommand(StringsOf(v))

\* the names of the members of an object, and the value the last member of a name has
MemberNames(v) == {v.items[i].name : i \in DOMAIN v.items}
LastValue(v, name) ==
    LET last == CHOOSE i \in DOMAIN v.items :
                    /\ v.items[i].name = name
                    /\ \A j \in DOMAIN v.items : v.items[j].name = name => j <= i
    IN  v.items[last].value

\* p holds one entry for every name of the object v, in ascending order of the names,
\* each with the command its value denotes
IsSortedParallelOf(p, v) ==
    /\ {p[i].Name : i \in DOMAIN p} = MemberNames(v)
    /\ \A i \in 1..(Len(p) - 1) : StrLess(p[i].Name, p[i + 1].Name)
    /\ \A i \in DOMAIN p : p[i].Command = CommandOf(LastValue(v, p[i].Name))

\* decoding the canonical form of the decoded value gave the same structure
SameAfterReencoding ==
    callee = "LifecycleCommands.UnmarshalJSON" /\ frame.pc = "done" =>
        /\ frame.again.value.err = ""
        /\ frame.again.value.c = frame.c

\* C30 as stated: a JSON string gives Single(Shell), a JSON array gives Single(Exec), a
\* JSON object gives Parallel with the entries sorted by name whatever the key order of
\* the input, a number or any other value is an error; decoding the canonical re-encoding
\* of a decoded value yields the same structure
C30_DecodeHookAsStated ==
    /\ HookDecoded =>
          LET data == callArgs.data
              r == callResult.value
          IN  /\ data.kind = "string" =>
                     r.err = "" /\ r.c = [Single |-> <<ShellCommand(data.str)>>,
                                          Parallel |-> <<>>]
              /\ IsArrayOfStrings(data) =>
                     r.err = "" /\ r.c = [Single |-> <<ExecCommand(StringsOf(data))>>,
                                          Parallel |-> <<>>]
              /\ (/\ data.kind = "object"
                  /\ \A name \in MemberNames(data) : IsCommandText(LastValue(data, name))) =>
                     r.err = "" /\ r.c.Single = <<>> /\ IsSortedParallelOf(r.c.Parallel, data)
              /\ data.kind \notin {"string", "array", "object"} => r.err # ""
    /\ SameAfterReencoding

\* a string that is not blank, an array of strings that is not empty
IsShellText(v) == v.kind = "string" /\ TrimSpace(v.str) # <<>>
IsExecText(v) == IsArrayOfStrings(v) /\ v.items # <<>>
\* an object with at least one member, no blank name, and such a value for every name
IsParallelText(v) ==
    /\ v.kind = "object" /\ v.items # <<>>
    /\ \A name \in MemberNames(v) :
           /\ TrimSpace(name) # <<>>
           /\ IsShellText(LastValue(v, name)) \/ IsExecText(LastValue(v, name))

\* C30 (amended): a JSON string that is not blank gives Single(Shell), a non-empty JSON
\* array of strings gives Single(Exec), a non-empty JSON object whose names are not blank
\* and whose values are such strings or arrays gives Parallel with the entries sorted by
\* name whatever the key order of the input; null is no error and leaves the hook unset;
\* a blank string, an empty array, an empty object, a number or a boolean is an error and
\* leaves the hook as it was; decoding the canonical re-encoding of a decoded value yields
\* the same structure
C30_DecodeHook ==
    /\ HookDecoded =>
          LET data == callArgs.data
              r == callResult.value
          IN  /\ IsShellText(data) =>
                     r.err = "" /\ r.c = [Single |-> <<ShellCommand(data.str)>>,
                                          Parallel |-> <<>>]
              /\ IsExecText(data) =>
                     r.err = "" /\ r.c = [Single |-> <<ExecCommand(StringsOf(data))>>,
                                          Parallel |-> <<>>]
              /\ IsParallelText(data) =>
                     r.err = "" /\ r.c.Single = <<>> /\ IsSortedParallelOf(r.c.Parallel, data)
              /\ data.kind = "null" => r.err = "" /\ r.c = ZeroCommands
              /\ (\/ data.kind = "string" /\ ~IsShellText(data)
                  \/ data.kind = "array" /\ data.items = <<>>
                  \/ data.kind = "object" /\ data.items = <<>>
                  \/ data.kind \in {"number", "bool"}) =>
                     r.err # "" /\ r.c = ZeroCommands
    /\ SameAfterReencoding

\* an object written with its names out of order was decoded into sorted entries,
\* re-encoded and decoded again
C30_Witness ==
    /\ callee = "LifecycleCommands.UnmarshalJSON" /\ frame.pc = "done"
    /\ callArgs.data = JObject(<<[name |-> Str_foo, value |-> JString(Str_foo)],
                                 [name |-> Str_Baz,
                                  value |-> JArray(<<JString(Str_foo), JString(Str_bar)>>)]>>)
    /\ frame.c.Parallel = <<[Name |-> Str_Baz, Command |-> ExecCommand(<<Str_foo, Str_bar>>)],
                            [Name |-> Str_foo, Command |-> ShellCommand(Str_foo)]>>
    /\ frame.again.value.c = frame.c

(***************************************************************************)
(* Claims about stripJSONComments (SpecStrip)                              *)
(***************************************************************************)
\* s begins with a quote: the index of the quote that closes the string, skipping every
\* byte that follows a backslash; 0 when the string is not closed
RECURSIVE ClosingQuote(_, _)
ClosingQuote(s, from) ==
    IF from > Len(s) THEN 0
    ELSE IF s[from] = Backslash THEN ClosingQuote(s, from + 2)
    ELSE IF s[from] = Quote THEN from
    ELSE ClosingQuote(s, from + 1)

\* the index of the star of the first star-slash of s at or after from, 0 when none
StarSlash(s, from) ==
    LET ends == {j \in from..(Len(s) - 1) : s[j] = "*" /\ s[j + 1] = "/"}
    IN  IF ends = {} THEN 0 ELSE CHOOSE j \in ends : \A k \in ends : j <= k

\* s without the comments that begin outside a string: strings are kept whole, a line
\* comment goes up to its newline, which is kept, a block comment up to its star-slash;
\* <<"unterminated">> alone when s ends inside a block comment
Unterminated == <<"unterminated">>
RECURSIVE WithoutComments(_)
WithoutComments(s) ==
    IF s = <<>> THEN <<>>
    ELSE IF s[1] = Quote
    THEN LET close == ClosingQuote(s, 2)
         IN  IF close = 0 THEN s
             ELSE LET rest == WithoutComments(SubSeq(s, close + 1, Len(s)))
                  IN  IF rest = Unterminated THEN rest ELSE SubSeq(s, 1, close) \o rest
    ELSE IF HasPrefix(s, <<"/", "/">>)
    THEN LET nl == IndexFrom(s, Newline, 3)
         IN  IF nl = 0 THEN <<>> ELSE WithoutComments(SubSeq(s, nl, Len(s)))
    ELSE IF HasPrefix(s, <<"/", "*">>)
    THEN LET close == StarSlash(s, 3)
         IN  IF close = 0 THEN Unterminated
             ELSE WithoutComments(SubSeq(s, close + 2, Len(s)))
    ELSE LET rest == WithoutComments(Tail(s))
         IN  IF rest = Unterminated THEN rest ELSE <<s[1]>> \o rest

StripReturned == callee = "stripJSONComments" /\ callResult.done

\* C31: stripJSONComments removes exactly the // line comments and /* */ block comments
\* that begin outside a JSON string -- every byte inside a string, //, /* and escaped
\* quotes included, is copied unchanged, the newline ending a line comment is kept --
\* and an input that ends inside a block comment yields an error
C31_StripsExactlyComments ==
    StripReturned =>
        IF WithoutComments(callArgs.input) = Unterminated
        THEN callResult.value.err = "unterminated block comment"
        ELSE /\ callResult.value.err = ""
             /\ callResult.value.out = WithoutComments(callArgs.input)

\* a string holding a comment opener was copied whole, and the line comment after it
\* removed up to its newline, which was kept
C31_Witness ==
    /\ StripReturned
    /\ callArgs.input = <<Quote, "/", "*", Quote, "/", "/", Newline>>
    /\ callResult.value = [err |-> "", out |-> <<Quote, "/", "*", Quote, Newline>>]

(***************************************************************************)
(* Claims about featureLess (SpecLess)                                     *)
(***************************************************************************)
\* -1, 0 or 1 as the number sequence x, padded with zeros, is below, equal to or above y
RECURSIVE PaddedCompare(_, _)
PaddedCompare(x, y) ==
    IF x = <<>> /\ y = <<>> THEN 0
    ELSE LET hx == IF x = <<>> THEN 0 ELSE Head(x)
             hy == IF y = <<>> THEN 0 ELSE Head(y)
         IN  IF hx < hy THEN -1
             ELSE IF hx > hy THEN 1
             ELSE PaddedCompare(IF x = <<>> THEN x ELSE Tail(x),
                                IF y = <<>> THEN y ELSE Tail(y))

\* the tag key: "latest" after any other tag, two semver tags numerically, else by text
TagKey(s, t) ==
    IF s = t THEN 0
    ELSE IF s = Str_latest THEN 1
    ELSE IF t = Str_latest THEN -1
    ELSE IF parseSemver(s).ok /\ parseSemver(t).ok
    THEN PaddedCompare(parseSemver(s).parts, parseSemver(t).parts)
    ELSE IF StrLess(s, t) THEN -1 ELSE 1

\* -1, 0 or 1 for two lists of strings compared element by element, a prefix first
RECURSIVE ListKey(_, _)
ListKey(x, y) ==
    IF x = <<>> /\ y = <<>> THEN 0
    ELSE IF x = <<>> THEN -1
    ELSE IF y = <<>> THEN 1
    ELSE IF StrLess(Head(x), Head(y)) THEN -1
    ELSE IF StrLess(Head(y), Head(x)) THEN 1
    ELSE ListKey(Tail(x), Tail(y))

TextKey(s, t) == IF StrLess(s, t) THEN -1 ELSE IF StrLess(t, s) THEN 1 ELSE 0
CountKey(m, n) == IF m > n THEN -1 ELSE IF m < n THEN 1 ELSE 0

\* the keys of the order for the features x and y, first to last
OrderKeys(x, y) ==
    <<TextKey(x.BaseName, y.BaseName),
      TagKey(x.Tag, y.Tag),
      CountKey(Cardinality(DOMAIN x.UserValues), Cardinality(DOMAIN y.UserValues)),
      ListKey(SortStrings(DOMAIN x.UserValues), SortStrings(DOMAIN y.UserValues)),
      ListKey([i \in 1..Cardinality(DOMAIN x.UserValues) |->
                  x.UserValues[SortStrings(DOMAIN x.UserValues)[i]]],
              [i \in 1..Cardinality(DOMAIN y.UserValues) |->
                  y.UserValues[SortStrings(DOMAIN y.UserValues)[i]]]),
      TextKey(x.CanonicalName, y.CanonicalName)>>

\* x is before y: the first key that tells them apart puts x first
BeforeByKeys(x, y) ==
    \E i \in 1..6 : OrderKeys(x, y)[i] = -1 /\ \A j \in 1..(i - 1) : OrderKeys(x, y)[j] = 0

FeatureLessReturned == callee = "featureLess" /\ callResult.done

\* C32: featureLess orders two features by, in this order: baseName ascending; tag, where
\* "latest" sorts after any other tag, two semver tags compare numerically component-wise
\* with the shorter zero-padded, otherwise lexicographically; number of user-set options,
\* higher first; sorted userValues keys; the values at those keys; canonicalName
C32_FeatureLessKeys ==
    FeatureLessReturned =>
        (callResult.value <=> BeforeByKeys(callArgs.a, callArgs.b))

SortReturned == callee = "sort.SliceStable" /\ callResult.done

\* C36: the complete installation order (the sequence of dependencyKeys), and with it
\* the features-image tag, is the same on every run for the same resolved feature set --
\* the sorted commit set and the tag do not depend on the order in which the range over
\* the remaining map delivered the features -- because featureLess is a strict total
\* order on the distinct features of a plan: irreflexive, transitive, and any two distinct
\* features comparable, also when tags are semver-equal or mix semver and other tags
C36_InstallOrderDeterministic ==
    /\ FeatureLessReturned =>
          IF callArgs.a = callArgs.b THEN ~callResult.value
          ELSE callResult.value # featureLess(callArgs.b, callArgs.a)
    /\ SortReturned =>
          /\ \A x, y, z \in Range(callArgs.commit) :
                 featureLess(x, y) /\ featureLess(y, z) => featureLess(x, z)
          /\ \A p \in Perms(Range(callArgs.commit)) :
                 featuresImageTag(SliceStable(p)) = callResult.value.tag

(***************************************************************************)
(* Further claims about orderFeatures (SpecOrder)                          *)
(***************************************************************************)
\* the base names of the plan, and the keys of the plan features an installsAfter list names
PlanBaseNames == {inFeatures[i].BaseName : i \in DOMAIN inFeatures}
KnownAfterKeys(f) ==
    {inFeatures[j].DependencyKey : j \in {k \in DOMAIN inFeatures :
                                            inFeatures[k].BaseName \in f.InstallsAfterIDs}}
\* some installsAfter entry of the plan names a base name that is not in the plan
HasUnknownInstallsAfter ==
    \E i \in DOMAIN inFeatures : inFeatures[i].InstallsAfterIDs \ PlanBaseNames # {}

\* C33: an installsAfter entry naming a baseName that is not in the resolved plan is a
\* silent no-op -- it adds no ordering constraint (the keys a feature waits for are those
\* of the plan features it names), never blocks the feature (a feature whose dependsOn
\* and known installsAfter features are installed can be installed) and never causes an
\* error (a plan whose only declarations are unknown installsAfter entries has no cycle)
C33_UnknownInstallsAfterNoOp ==
    /\ opc \in {"loop", "done"} =>
          \A i \in DOMAIN inFeatures :
              inFeatures[i].InstallsAfterKeys = KnownAfterKeys(inFeatures[i])
    /\ opc = "loop" =>
          \A key \in remaining :
              (nodes(key).DependsOnKeys \cup KnownAfterKeys(nodes(key))) \subseteq Range(order)
                  => key \in Installable
    /\ (/\ opc = "done"
        /\ \A i \in DOMAIN inFeatures :
               /\ inFeatures[i].DependsOnKeys = {}
               /\ inFeatures[i].InstallsAfterIDs \cap PlanBaseNames = {})
          => orderRet.kind # "cycle"

\* a plan with an installsAfter entry for a base name it does not hold was ordered
C33_Witness ==
    /\ opc = "done" /\ orderRet.kind = "ok"
    /\ HasUnknownInstallsAfter
    /\ Len(order) = Len(inFeatures) /\ Len(order) >= 2

InputKeys == {inFeatures[i].DependencyKey : i \in DOMAIN inFeatures}

\* the order holds every input feature exactly once
IsPermutationOfInput ==
    /\ Len(order) = Len(inFeatures)
    /\ Range(order) = InputKeys
    /\ \A i, j \in DOMAIN order : i # j => order[i] # order[j]

\* C34: when orderFeatures succeeds its result is a permutation of its input, every input
\* feature appearing exactly once; every round of the loop commits at least one feature
\* (what is committed leaves remaining and joins the order), so the loop ends after at
\* most n rounds for n features: the call returns
C34_PermutationAndTermination ==
    /\ [](opc = "done" /\ orderRet.kind = "ok" => IsPermutationOfInput)
    /\ [](opc = "loop" => /\ Cardinality(remaining) + Len(order) = Len(inFeatures)
                          /\ Range(order) \cap remaining = {}
                          /\ Range(order) \cup remaining = InputKeys)
    /\ [][opc = "loop" /\ opc' = "loop" =>
            /\ Cardinality(remaining') < Cardinality(remaining)
            /\ Len(order') > Len(order)]_vars
    /\ <>(opc = "done")

\* three features were ordered in more than one round
C34_Witness ==
    /\ opc = "done" /\ orderRet.kind = "ok"
    /\ Len(order) = 3 /\ IsPermutationOfInput
    /\ \E i \in DOMAIN inFeatures : inFeatures[i].DependsOnKeys # {}

\* the relation dependsOn \cup installsAfter on the keys of the plan: a feature points at
\* the plan features it depends on and at the plan features whose base name it names
PlanEdges ==
    {e \in InputKeys \X InputKeys :
        e[2] \in nodes(e[1]).DependsOnKeys \cup KnownAfterKeys(nodes(e[1]))}
\* the keys reached from a set of keys in one step, and in at most n further steps
PlanSuccessors(keys) == {e[2] : e \in {x \in PlanEdges : x[1] \in keys}}
RECURSIVE PlanReach(_, _)
PlanReach(keys, n) ==
    IF n = 0 THEN keys ELSE PlanReach(keys \cup PlanSuccessors(keys), n - 1)
\* some feature reaches itself in one step or more
PlanHasCycle ==
    \E key \in InputKeys : key \in PlanReach(PlanSuccessors({key}), Cardinality(InputKeys))

\* C35: orderFeatures returns the cycle error if and only if the relation
\* dependsOn \cup installsAfter restricted to the features of the plan contains a cycle (a
\* feature whose installsAfter names its own baseName counts as a cycle): an acyclic plan
\* is never rejected as cyclic, whatever the override list
C35_CycleErrorIffCycle ==
    opc = "done" => (orderRet.kind = "cycle" <=> PlanHasCycle)

\* a plan with an override list was rejected for a cycle through two features, one edge a
\* dependsOn and one an installsAfter, no feature naming itself
C35_Witness ==
    /\ opc = "done" /\ orderRet.kind = "cycle"
    /\ inOverride # <<>>
    /\ \A key \in InputKeys : key \notin PlanSuccessors({key})
    /\ \E i, j \in DOMAIN inFeatures :
          /\ i # j
          /\ inFeatures[j].DependencyKey \in inFeatures[i].DependsOnKeys
          /\ inFeatures[i].DependencyKey \in KnownAfterKeys(inFeatures[j])

(***************************************************************************)
(* Further claims about mergeEnvMaps (SpecMergeEnv)                        *)
(***************************************************************************)
\* what the call returns when the two maps are ranged over in the given orders
MergeResultInOrder(baseOrder, overlayOrder) ==
    mergeEnvMapsInOrder(callArgs.base, callArgs.overlay, callArgs.vars,
                        baseOrder, overlayOrder, world.env)

\* C37: mergeEnvMaps is a deterministic function of its arguments -- when a value
\* references another key of the same map (through ${containerEnv:KEY} or ${KEY}), the
\* merged map, or the error, does not depend on the iteration order of the map: what
\* the call returned is what it returns under every order of the base and overlay keys
C37_MergeEnvDeterministic ==
    MergeEnvReturned =>
        \A baseOrder \in Perms(DOMAIN callArgs.base) :
            \A overlayOrder \in Perms(DOMAIN callArgs.overlay) :
                MergeResultInOrder(baseOrder, overlayOrder) = callResult.value

(***************************************************************************)
(* Further claims about StartDevcontainer (Spec)                           *)
(***************************************************************************)
\* the sub-commands of the parallel hook in flight, and whether one of them has failed
CurrentSiblings == {CallId(Head(queue), Head(queue).subs[i]) : i \in DOMAIN cur.gor}
SiblingFailed == cur.st = "parallel" /\ \E i \in DOMAIN cur.res : cur.res[i] # NoErr
\* the commands of the hook invocations that come after the one in flight
FollowingCmds ==
    UNION {{CallId(queue[k], sub) : sub \in {""} \cup Range(queue[k].subs)} :
             k \in 2..Len(queue)}

\* C38: when one sub-command of a parallel hook fails, its siblings are neither skipped
\* nor cancelled -- a sibling not yet invoked can still be invoked and a running one can
\* still return; while a sibling is still running the call has not returned and no command
\* of a following hook has been started; and when the hook's error is returned every
\* sibling has been invoked once and has returned
C38_SiblingsRunToCompletion ==
    /\ SiblingFailed =>
          /\ \A i \in DOMAIN cur.gor :
                 /\ cur.gor[i] = "spawned" => ENABLED SubStart(i)
                 /\ cur.gor[i] = "running" => ENABLED SubReturn(i)
          /\ ~WaitGroupDone =>
                 /\ ~ret.set /\ pc # "done"
                 /\ \A c \in DOMAIN calls : calls[c].status = "running" => c \in CurrentSiblings
                 /\ FollowingCmds \cap DOMAIN calls = {}
    /\ (lastJoin.seen /\ lastJoin.result # NoErr) =>
          /\ ret.set /\ ret.err = lastJoin.result
          /\ \A sub \in Range(lastJoin.subs) :
                 LET c == <<lastJoin.hook, lastJoin.owner, sub>>
                 IN  HasReturned(c) /\ calls[c].n = 1
          /\ \A c \in DOMAIN calls : calls[c].status # "running"

\* a sub-command of a parallel hook has failed while a sibling is not yet invoked and
\* another hook invocation is waiting behind the hook
C38_Witness ==
    /\ SiblingFailed
    /\ \E j \in DOMAIN cur.gor : cur.gor[j] = "spawned"
    /\ Len(queue) >= 2

\* the steps of StartDevcontainer that come before the container is created: config
\* loading and validation, feature resolution and env merging, the engine client and the
\* image, the features image, and the parsing of run arguments, ports, mounts and limits
PreCreationSteps ==
    {"config", "resolve", "clientErr", "imageErr", "inspectErr", "buildErr", "containerSpec"}
\* the call has returned the error of such a step, or of a command of initializeCommand
FailedBeforeCreation ==
    /\ ret.set
    /\ \/ ret.err.kind \in PreCreationSteps
       \/ ret.err.kind = "command" /\ ret.err.call[1] = "initializeCommand"
\* the engine was asked to create a container
CreationReached == \E i \in DOMAIN engineOps : engineOps[i] = "create"

\* C39: StartDevcontainer creates no container when it fails during config loading or
\* validation, feature resolution, env merging, initializeCommand, image preparation,
\* run-argument parsing, port parsing, mount building or resource-limit parsing:
\* container creation is reached only after all of these have succeeded (every command of
\* initializeCommand returned nil, the image was pulled or built, and with features the
\* features image was built, all before the create), and every such failure returns an
\* empty container id
C39_NoContainerBeforeCreation ==
    /\ FailedBeforeCreation =>
          /\ ~created /\ ~CreationReached
          /\ ret.id = "" /\ containerID = ""
    /\ CreationReached =>
          /\ cfg.mode = "single" /\ ~FailedBeforeCreation
          /\ \A d \in InitializeCmds : Succeeded(d)
          /\ \A i \in DOMAIN engineOps :
                 engineOps[i] = "create" =>
                     /\ i > 1 /\ engineOps[1] \in {"pull", "build"}
                     /\ cfg.Order # <<>> => i > 3 /\ engineOps[2] = "inspect"
                                                  /\ engineOps[3] = "build"
                     /\ \A j \in DOMAIN engineOps : engineOps[j] = "create" => j = i
    /\ created /\ cfg.mode = "single" => CreationReached

\* a call with features and an initializeCommand has prepared its images and then failed
\* on its run arguments, ports, mounts or limits
C39_Witness ==
    /\ ret.set /\ ret.err.kind = "containerSpec"
    /\ cfg.mode = "single" /\ cfg.Order # <<>>
    /\ InitializeCmds # {}
    /\ Len(engineOps) = 3
====
